---- MODULE Spec2Model ----
(***************************************************************************)
(* Model of the TSM ensemble core: Worker.execute and                      *)
(* WorkerPool.execute_parallel (tsm/core/worker.py), the result records    *)
(* (tsm/core/result.py) and the aggregation strategies                     *)
(* (tsm/core/aggregator.py).                                               *)
(*                                                                         *)
(* Real numbers (confidences, weights, values) are exact rationals, a pair *)
(* <<numerator, denominator>> with a positive denominator, kept reduced.   *)
(* Time is counted in ticks of one second.                                 *)
(***************************************************************************)
EXTENDS Integers, Sequences, FiniteSets, TLC

(***************************************************************************)
(* Bounds of the model.                                                    *)
(***************************************************************************)
\* seconds a running worker is followed for
MaxTime == 2

\* the worker ids callers use
WorkerIds == {"w1", "w2"}
\* the lists callers pass as worker_ids
WorkerIdLists == UNION {[1..k -> WorkerIds] : k \in 0..2}
\* timeout_seconds values workers are configured with
Timeouts == {1}

\* Python values: None, a number, a categorical label
None == [kind |-> "none"]
Num(q) == [kind |-> "num", q |-> q]
Label(s) == [kind |-> "label", s |-> s]

(***************************************************************************)
(* Exact rational arithmetic.                                              *)
(***************************************************************************)
Abs(n) == IF n < 0 THEN -n ELSE n

RECURSIVE Gcd(_, _)
Gcd(a, b) == IF b = 0 THEN a ELSE Gcd(b, a % b)

\* the reduced fraction n/d, d # 0
Frac(n, d) ==
    LET g == Gcd(Abs(n), Abs(d))
        s == IF d < 0 THEN -1 ELSE 1
    IN  <<(s * n) \div g, (s * d) \div g>>

RInt(n) == <<n, 1>>
RZero == RInt(0)
ROne == RInt(1)
RAdd(x, y) == Frac(x[1] * y[2] + y[1] * x[2], x[2] * y[2])
RSub(x, y) == Frac(x[1] * y[2] - y[1] * x[2], x[2] * y[2])
RMul(x, y) == Frac(x[1] * y[1], x[2] * y[2])
RDiv(x, y) == Frac(x[1] * y[2], x[2] * y[1])
RLt(x, y) == x[1] * y[2] < y[1] * x[2]
RLe(x, y) == x[1] * y[2] <= y[1] * x[2]
RAbs(x) == <<Abs(x[1]), x[2]>>
RMin(x, y) == IF RLe(x, y) THEN x ELSE y

(***************************************************************************)
(* tsm/core/result.py                                                      *)
(***************************************************************************)
SUCCESS == "success"
FAILED == "failed"
ANOMALY == "anomaly"
TIMEOUT == "timeout"
ResultStatus == {SUCCESS, FAILED, ANOMALY, TIMEOUT}

\* what a call gives back: a value, or an exception that propagates
Returns(v) == [kind |-> "return", value |-> v]
Raises(e) == [kind |-> "raise", exc |-> e]

\* WorkerResult(...): the dataclass constructor with its __post_init__ checks
WorkerResult(worker_id, value, confidence, processing_time_ms, status, metadata) ==
    IF ~(RLe(RZero, confidence) /\ RLe(confidence, ROne))
    THEN Raises("ValueError")
    ELSE IF processing_time_ms < 0
    THEN Raises("ValueError")
    ELSE Returns([worker_id |-> worker_id,
                  value |-> value,
                  confidence |-> confidence,
                  processing_time_ms |-> processing_time_ms,
                  status |-> status,
                  metadata |-> metadata])

IsValidMutant(r) == r.status = SUCCESS

\* WorkerResult.is_valid
IsValid(r) == r.status = SUCCESS /\ RLt(RZero, r.confidence)

(***************************************************************************)
(* tsm/core/aggregator.py                                                  *)
(***************************************************************************)
\* AggregatedResult(...): the dataclass constructor with its __post_init__
\* check, which looks at the confidence only
AggregatedResult(value, confidence, worker_results, weights, method, processing_time_ms, metadata) ==
    IF ~(RLe(RZero, confidence) /\ RLe(confidence, ROne))
    THEN Raises("ValueError")
    ELSE Returns([value |-> value,
                  confidence |-> confidence,
                  worker_results |-> worker_results,
                  weights |-> weights,
                  aggregation_method |-> method,
                  processing_time_ms |-> processing_time_ms,
                  metadata |-> metadata])

\* (time.time() - start_time) * 1000 of a strategy: no time passes in a call
Elapsed == 0

\* the weights argument of aggregate: None or a dict worker_id -> weight
NoWeights == [kind |-> "none"]
Dict(d) == [kind |-> "dict", d |-> d]
Truthy(weights) == weights.kind = "dict" /\ DOMAIN weights.d # {}

RECURSIVE SumSeq(_)
\* sum(...) of a list of numbers
SumSeq(q) == IF q = <<>> THEN RZero ELSE RAdd(Head(q), SumSeq(Tail(q)))

RECURSIVE SumValues(_, _)
\* sum(d.values()) over the keys S of the dict d
SumValues(d, S) ==
    IF S = {} THEN RZero
    ELSE LET k == CHOOSE k \in S : TRUE IN RAdd(d[k], SumValues(d, S \ {k}))

IdsOf(results) == {results[i].worker_id : i \in 1..Len(results)}

\* AggregationStrategy._filter_valid_results
FilterValidResults(results) == SelectSeq(results, IsValid)

\* AggregationStrategy._get_weights
GetWeights(results, provided) ==
    IF Truthy(provided)
    THEN [wid \in IdsOf(results) |->
              IF wid \in DOMAIN provided.d THEN provided.d[wid] ELSE ROne]
    ELSE [wid \in IdsOf(results) |-> ROne]

\* the error result every strategy returns when it cannot aggregate
Sentinel(method, results, error) ==
    AggregatedResult(None, RZero, results, <<>>, method, Elapsed, [error |-> error])

ExceptTypeErrorMutant(method, results) == Raises("TypeError")

\* the except branch of the numeric strategies: a value that is no number
\* made the arithmetic raise TypeError (or ValueError), which is caught there
ExceptTypeError(method, results) ==
    Sentinel(method, results, "Non-numerical values")

\* the result a dict comprehension keyed by worker_id keeps for wid: the last one
LastResultOf(valid, wid) ==
    valid[CHOOSE i \in 1..Len(valid) :
              /\ valid[i].worker_id = wid
              /\ \A j \in (i + 1)..Len(valid) : valid[j].worker_id # wid]

\* WeightedAverageAggregation.aggregate: effective weights
EffectiveWeights(use_confidence, valid, base_weights) ==
    [wid \in DOMAIN base_weights |->
         IF use_confidence
         THEN RMul(base_weights[wid], LastResultOf(valid, wid).confidence)
         ELSE base_weights[wid]]

NormalizeWeightsMutant(effective_weights) ==
    LET total_weight == SumValues(effective_weights, DOMAIN effective_weights) IN
    IF RLt(RZero, total_weight)
    THEN [wid \in DOMAIN effective_weights |-> RDiv(effective_weights[wid], total_weight)]
    ELSE effective_weights

\* WeightedAverageAggregation.aggregate: normalize weights
NormalizeWeights(effective_weights) ==
    LET total_weight == SumValues(effective_weights, DOMAIN effective_weights) IN
    IF RLt(RZero, total_weight)
    THEN [wid \in DOMAIN effective_weights |-> RDiv(effective_weights[wid], total_weight)]
    ELSE [wid \in DOMAIN effective_weights |->
              Frac(1, Cardinality(DOMAIN effective_weights))]

IsNumber(v) == v.kind = "num"
AllNumbers(valid) == \A i \in 1..Len(valid) : IsNumber(valid[i].value)

WeightedAverageAggregateMutant(use_confidence, results, weights) ==
    LET valid == FilterValidResults(results)
        base_weights == GetWeights(valid, weights)
        normalized_weights ==
            NormalizeWeights(EffectiveWeights(use_confidence, valid, base_weights))
    IN  IF valid = <<>>
        THEN Sentinel("weighted_average", results, "No valid results to aggregate")
        ELSE IF ~AllNumbers(valid)
        THEN ExceptTypeError("weighted_average", results)
        ELSE AggregatedResult(
                 Num(RDiv(SumSeq([i \in 1..Len(valid) |-> valid[i].value.q]),
                          RInt(Len(valid)))),
                 SumSeq([i \in 1..Len(valid) |->
                            RMul(valid[i].confidence,
                                 normalized_weights[valid[i].worker_id])]),
                 results, normalized_weights, "weighted_average", Elapsed,
                 [valid_results |-> Len(valid), total_results |-> Len(results),
                  use_confidence |-> use_confidence])

\* WeightedAverageAggregation.aggregate
WeightedAverageAggregate(use_confidence, results, weights) ==
    LET valid == FilterValidResults(results)
        base_weights == GetWeights(valid, weights)
        normalized_weights ==
            NormalizeWeights(EffectiveWeights(use_confidence, valid, base_weights))
    IN  IF valid = <<>>
        THEN Sentinel("weighted_average", results, "No valid results to aggregate")
        ELSE IF ~AllNumbers(valid)
        THEN ExceptTypeError("weighted_average", results)
        ELSE AggregatedResult(
                 Num(SumSeq([i \in 1..Len(valid) |->
                                RMul(valid[i].value.q,
                                     normalized_weights[valid[i].worker_id])])),
                 SumSeq([i \in 1..Len(valid) |->
                            RMul(valid[i].confidence,
                                 normalized_weights[valid[i].worker_id])]),
                 results, normalized_weights, "weighted_average", Elapsed,
                 [valid_results |-> Len(valid), total_results |-> Len(results),
                  use_confidence |-> use_confidence])

MaxVoteMutant(valid, vote_scores) ==
    CHOOSE i \in 1..Len(valid) :
        /\ \A j \in 1..Len(valid) :
               RLe(vote_scores[valid[j].value], vote_scores[valid[i].value])
        /\ \A j \in (i + 1)..Len(valid) :
               valid[j].value # valid[i].value =>
                   RLt(vote_scores[valid[j].value], vote_scores[valid[i].value])

\* max(vote_scores.items(), key=score): the first value, in the insertion
\* order of the dict, with the highest score; given as the index in valid of
\* the result that inserted it
MaxVote(valid, vote_scores) ==
    CHOOSE i \in 1..Len(valid) :
        /\ \A j \in 1..Len(valid) :
               RLe(vote_scores[valid[j].value], vote_scores[valid[i].value])
        /\ \A j \in 1..(i - 1) :
               RLt(vote_scores[valid[j].value], vote_scores[valid[i].value])

\* MajorityVotingAggregation.aggregate
MajorityVotingAggregate(use_confidence, results, weights) ==
    LET valid == FilterValidResults(results)
        base_weights == GetWeights(valid, weights)
        score(i) == IF use_confidence
                    THEN RMul(base_weights[valid[i].worker_id], valid[i].confidence)
                    ELSE base_weights[valid[i].worker_id]
        voted == {valid[i].value : i \in 1..Len(valid)}
        vote_scores ==
            [v \in voted |->
                 SumSeq([i \in 1..Len(valid) |->
                            IF valid[i].value = v THEN score(i) ELSE RZero])]
        first == MaxVote(valid, vote_scores)
        winning_value == valid[first].value
        winning_score == vote_scores[winning_value]
        total_score == SumValues(vote_scores, voted)
        confidence == IF RLt(RZero, total_score)
                      THEN RDiv(winning_score, total_score) ELSE RZero
        agreement == Frac(Cardinality({i \in 1..Len(valid) :
                                           valid[i].value = winning_value}),
                          Len(valid))
    IN  IF valid = <<>>
        THEN Sentinel("majority_voting", results, "No valid results to aggregate")
        ELSE AggregatedResult(winning_value, confidence, results, base_weights,
                              "majority_voting", Elapsed,
                              [valid_results |-> Len(valid),
                               total_results |-> Len(results),
                               vote_distribution |-> vote_scores,
                               agreement |-> agreement,
                               use_confidence |-> use_confidence])

\* ConfidenceBasedAggregation.aggregate
ConfidenceBasedAggregate(results, weights) ==
    LET valid == FilterValidResults(results)
        base_weights == GetWeights(valid, weights)
        score(i) == RMul(valid[i].confidence, base_weights[valid[i].worker_id])
        \* the loop keeps the first result with the highest score
        best == CHOOSE i \in 1..Len(valid) :
                    /\ \A j \in 1..Len(valid) : RLe(score(j), score(i))
                    /\ \A j \in 1..(i - 1) : RLt(score(j), score(i))
    IN  IF valid = <<>>
        THEN Sentinel("confidence_based", results, "No valid results to aggregate")
        ELSE AggregatedResult(valid[best].value, valid[best].confidence, results,
                              base_weights, "confidence_based", Elapsed,
                              [valid_results |-> Len(valid),
                               total_results |-> Len(results),
                               selected_worker |-> valid[best].worker_id,
                               weighted_confidence |-> score(best)])

RECURSIVE Insert(_, _)
Insert(x, q) ==
    IF q = <<>> THEN <<x>>
    ELSE IF RLe(x, Head(q)) THEN <<x>> \o q
    ELSE <<Head(q)>> \o Insert(x, Tail(q))

RECURSIVE Sorted(_)
Sorted(q) == IF q = <<>> THEN <<>> ELSE Insert(Head(q), Sorted(Tail(q)))

\* np.median of a non-empty list of numbers
Median(q) ==
    LET s == Sorted(q)
        n == Len(q)
    IN  IF n % 2 = 1 THEN s[(n + 1) \div 2]
        ELSE RDiv(RAdd(s[n \div 2], s[n \div 2 + 1]), RInt(2))

\* np.mean of a non-empty list of numbers
Mean(q) == RDiv(SumSeq(q), RInt(Len(q)))

ConsistencyConfidenceMutant(values, confidences, mad) ==
    LET sorted == Sorted(values)
        value_range == RSub(sorted[Len(sorted)], sorted[1])
    IN  IF Len(values) > 1
        THEN IF RLt(RZero, value_range)
             THEN RSub(ROne, RMin(RDiv(mad, value_range), ROne))
             ELSE RZero
        ELSE ROne

\* MedianAggregation.aggregate: confidence based on consistency
ConsistencyConfidence(values, confidences, mad) ==
    LET sorted == Sorted(values)
        value_range == RSub(sorted[Len(sorted)], sorted[1])
    IN  IF Len(values) > 1
        THEN IF RLt(RZero, value_range)
             THEN RSub(ROne, RMin(RDiv(mad, value_range), ROne))
             ELSE ROne
        ELSE confidences[1]

\* MedianAggregation.aggregate
MedianAggregate(results, weights) ==
    LET valid == FilterValidResults(results)
        values == [i \in 1..Len(valid) |-> valid[i].value.q]
        confidences == [i \in 1..Len(valid) |-> valid[i].confidence]
        median_value == Median(values)
        mad == Median([i \in 1..Len(values) |-> RAbs(RSub(values[i], median_value))])
        sorted == Sorted(values)
        value_range == RSub(sorted[Len(sorted)], sorted[1])
        confidence == ConsistencyConfidence(values, confidences, mad)
        overall_confidence == RDiv(RAdd(confidence, Mean(confidences)), RInt(2))
    IN  IF valid = <<>>
        THEN Sentinel("median", results, "No valid results to aggregate")
        ELSE IF ~AllNumbers(valid)
        THEN ExceptTypeError("median", results)
        ELSE AggregatedResult(Num(median_value), overall_confidence, results,
                              GetWeights(valid, weights), "median", Elapsed,
                              [valid_results |-> Len(valid),
                               total_results |-> Len(results),
                               mad |-> mad,
                               value_range |-> IF Len(values) > 1
                                               THEN value_range ELSE RZero])

\* the four strategies, with their constructor arguments
Strategies ==
    {[name |-> n, use_confidence |-> b] :
         n \in {"weighted_average", "majority_voting"}, b \in BOOLEAN}
    \cup {[name |-> "confidence_based"], [name |-> "median"]}

\* strategy.aggregate(results, weights)
StrategyAggregate(strategy, results, weights) ==
    CASE strategy.name = "weighted_average" ->
             WeightedAverageAggregate(strategy.use_confidence, results, weights)
      [] strategy.name = "majority_voting" ->
             MajorityVotingAggregate(strategy.use_confidence, results, weights)
      [] strategy.name = "confidence_based" ->
             ConfidenceBasedAggregate(results, weights)
      [] strategy.name = "median" ->
             MedianAggregate(results, weights)

(***************************************************************************)
(* The inputs the strategies are run on.                                   *)
(***************************************************************************)
\* longest list of worker results aggregated
MaxResults == 3

\* the workers whose results are aggregated, in the order of the list
AggWorkers == <<"w1", "w2", "w3", "w4">>

\* value, confidence and status of the worker results
ResultShapes ==
    {[value |-> Num(RInt(v)), confidence |-> ROne, status |-> SUCCESS] :
         v \in {10, 12, 14}}
    \cup {[value |-> Num(RInt(10)), confidence |-> Frac(1, 2), status |-> SUCCESS],
          [value |-> Label("high"), confidence |-> ROne, status |-> SUCCESS],
          [value |-> Num(RInt(10)), confidence |-> RZero, status |-> SUCCESS],
          [value |-> None, confidence |-> RZero, status |-> FAILED],
          [value |-> None, confidence |-> RZero, status |-> TIMEOUT],
          [value |-> Num(RInt(14)), confidence |-> ROne, status |-> ANOMALY]}

RECURSIVE SeqOfSet(_)
\* the members of a set of indices, in increasing order
SeqOfSet(S) ==
    IF S = {} THEN <<>>
    ELSE LET m == CHOOSE m \in S : \A x \in S : m <= x
         IN  <<m>> \o SeqOfSet(S \ {m})

\* the lists of results: one result each for up to MaxResults workers
ResultLists ==
    UNION {
        LET who == SeqOfSet(S) IN
        {[i \in 1..Len(who) |->
              WorkerResult(AggWorkers[who[i]], shape[i].value, shape[i].confidence,
                           0, shape[i].status, <<>>).value] :
             shape \in [1..Len(who) -> ResultShapes]}
        : S \in {S \in SUBSET (1..Len(AggWorkers)) : Cardinality(S) <= MaxResults}}

\* the weights the strategies are given
WeightMaps ==
    {NoWeights,
     Dict(<<>>),
     Dict([wid \in IdsOf([i \in 1..Len(AggWorkers) |-> [worker_id |-> AggWorkers[i]]])
               |-> RZero]),
     Dict(("w1" :> Frac(1, 2)) @@ ("w2" :> RInt(2)))}

(***************************************************************************)
(* tsm/core/learner.py: BayesianWeightLearner                              *)
(***************************************************************************)
\* max(a, b) of two numbers
RMax(a, b) == IF RLt(a, b) THEN b ELSE a

\* PerformanceMetric: the fields the learner reads
PerformanceMetric(confidence, accuracy) ==
    [confidence |-> confidence, accuracy |-> accuracy]

\* BayesianWeightLearner.__init__; weights, history and update_count are
\* dicts keyed by worker_id, empty at first
BayesianWeightLearner(alpha, prior_weight, min_weight, confidence_scaling) ==
    IF ~(RLt(RZero, alpha) /\ RLe(alpha, ROne))
    THEN Raises("ValueError")
    ELSE IF RLe(prior_weight, RZero)
    THEN Raises("ValueError")
    ELSE Returns([alpha |-> alpha,
                  prior_weight |-> prior_weight,
                  min_weight |-> min_weight,
                  confidence_scaling |-> confidence_scaling,
                  weights |-> <<>>,
                  history |-> <<>>,
                  update_count |-> <<>>])

\* BayesianWeightLearner.get_weight
get_weight(self, worker_id) ==
    IF worker_id \in DOMAIN self.weights
    THEN self.weights[worker_id]
    ELSE self.prior_weight

GetAllWeightsPriorMutant(self) ==
    Dict([wid \in {AggWorkers[i] : i \in 1..Len(AggWorkers)} |-> get_weight(self, wid)])

\* BayesianWeightLearner.get_all_weights: a copy of the weights dict
get_all_weights(self) == Dict(self.weights)

\* d[key] = value on a dict
SetItem(d, key, value) == [k \in DOMAIN d \cup {key} |-> IF k = key THEN value ELSE d[k]]

\* update_weight: the effective learning rate
EffectiveAlpha(self, metric) ==
    IF self.confidence_scaling
    THEN RMul(self.alpha, metric.confidence)
    ELSE self.alpha

NewWeightUnscaledMutant(self, worker_id, metric) ==
    LET current_weight == get_weight(self, worker_id)
        effective_alpha == self.alpha
    IN  RMax(RAdd(RMul(current_weight, RSub(ROne, effective_alpha)),
                  RMul(metric.accuracy, effective_alpha)),
             self.min_weight)

NewWeightNoFloorMutant(self, worker_id, metric) ==
    LET current_weight == get_weight(self, worker_id)
        effective_alpha == EffectiveAlpha(self, metric)
    IN  RAdd(RMul(current_weight, RSub(ROne, effective_alpha)),
             RMul(metric.accuracy, effective_alpha))

NewWeightOvershootMutant(self, worker_id, metric) ==
    LET current_weight == get_weight(self, worker_id)
        effective_alpha == RAdd(EffectiveAlpha(self, metric), ROne)
    IN  RMax(RAdd(RMul(current_weight, RSub(ROne, effective_alpha)),
                  RMul(metric.accuracy, effective_alpha)),
             self.min_weight)

\* update_weight: the Bayesian update and the minimum weight
NewWeight(self, worker_id, metric) ==
    LET current_weight == get_weight(self, worker_id)
        effective_alpha == EffectiveAlpha(self, metric)
    IN  RMax(RAdd(RMul(current_weight, RSub(ROne, effective_alpha)),
                  RMul(metric.accuracy, effective_alpha)),
             self.min_weight)

\* BayesianWeightLearner.update_weight: the learner after the call
update_weight(self, worker_id, metric) ==
    [self EXCEPT
         !.weights = SetItem(@, worker_id, NewWeight(self, worker_id, metric)),
         !.history = SetItem(@, worker_id,
                             IF worker_id \in DOMAIN @
                             THEN Append(@[worker_id], metric)
                             ELSE <<metric>>),
         !.update_count = SetItem(@, worker_id,
                                  IF worker_id \in DOMAIN @
                                  THEN @[worker_id] + 1
                                  ELSE 1)]

RECURSIVE UpdateEach(_, _, _)
\* batch_update: the inner loop over one worker's metrics
UpdateEach(self, worker_id, worker_metrics) ==
    IF worker_metrics = <<>> THEN self
    ELSE UpdateEach(update_weight(self, worker_id, Head(worker_metrics)),
                    worker_id, Tail(worker_metrics))

RECURSIVE batch_update(_, _)
\* BayesianWeightLearner.batch_update: the learner after the call; metrics is
\* the dict given, as its items in insertion order
batch_update(self, metrics) ==
    IF metrics = <<>> THEN self
    ELSE batch_update(UpdateEach(self, Head(metrics).worker_id, Head(metrics).metrics),
                      Tail(metrics))

\* del d[key] on a dict
DelItem(d, key) ==
    IF DOMAIN d \ {key} = {} THEN <<>> ELSE [k \in DOMAIN d \ {key} |-> d[k]]

ResetWorkerKeepsHistoryMutant(self, worker_id) ==
    [self EXCEPT !.weights = DelItem(@, worker_id),
                 !.update_count = DelItem(@, worker_id)]

\* BayesianWeightLearner.reset_worker: the learner after the call
reset_worker(self, worker_id) ==
    [self EXCEPT !.weights = DelItem(@, worker_id),
                 !.history = DelItem(@, worker_id),
                 !.update_count = DelItem(@, worker_id)]

\* BayesianWeightLearner.get_statistics: None without history, else a dict of
\* which the weight and the update count are kept (the rest are numpy
\* statistics of the history)
get_statistics(self, worker_id) ==
    IF worker_id \notin DOMAIN self.history \/ self.history[worker_id] = <<>>
    THEN None
    ELSE [kind |-> "dict",
          worker_id |-> worker_id,
          current_weight |-> get_weight(self, worker_id),
          update_count |-> IF worker_id \in DOMAIN self.update_count
                           THEN self.update_count[worker_id] ELSE 0]

(***************************************************************************)
(* tsm/core/aggregator.py: Aggregator                                      *)
(***************************************************************************)
\* Aggregator.__init__: has_learner says whether a weight learner is attached
NewAggregator(strategy, has_learner) ==
    [strategy |-> strategy, has_learner |-> has_learner]

LearnedWeightsMutant(self, the_learner, previous) ==
    IF ~self.has_learner THEN NoWeights
    ELSE IF "weights" \in DOMAIN previous /\ previous.weights.kind = "dict"
    THEN previous.weights
    ELSE get_all_weights(the_learner)

\* Aggregator.aggregate: get learned weights if available; previous is the
\* call made before this one, which the code keeps nothing of
LearnedWeights(self, the_learner, previous) ==
    IF self.has_learner THEN get_all_weights(the_learner) ELSE NoWeights

(***************************************************************************)
(* tsm/core/worker.py: Worker                                              *)
(***************************************************************************)
IDLE == "idle"
ACTIVE == "active"
WFAILED == "wfailed"
QUARANTINED == "quarantined"
DISABLED == "disabled"
WorkerStatus == {IDLE, ACTIVE, WFAILED, QUARANTINED, DISABLED}

MsPerSecond == 1000

\* Worker.__init__ with a WorkerConfig(enabled, timeout_seconds);
\* total_processing_time_ms, which only get_statistics reads, is left out
NewWorker(enabled, timeout) ==
    [enabled |-> enabled,
     timeout_seconds |-> timeout,
     status |-> IDLE,
     execution_count |-> 0,
     failure_count |-> 0]

\* what the subclass's process and get_confidence do in one execution
Behaviours ==
    { [process |-> Returns(Num(RInt(10))), get_confidence |-> Returns(c)] :
          c \in {ROne, Frac(3, 2)} }
    \cup { [process |-> Returns(Num(RInt(10))), get_confidence |-> Raises("ConfidenceError")],
           [process |-> Raises("ProcessError"), get_confidence |-> Returns(ROne)] }

\* Worker.execute up to the try: the worker turns ACTIVE and counts the execution
ExecuteBegin(w) ==
    [w EXCEPT !.status = ACTIVE, !.execution_count = @ + 1]

\* the except branch of Worker.execute
ExecuteExcept(wid, w, e, time_ms) ==
    LET w1 == [w EXCEPT !.failure_count = @ + 1, !.status = WFAILED]
    IN  [worker |-> w1,
         outcome |-> WorkerResult(wid, None, RZero, time_ms, FAILED,
                                  [error |-> e, error_type |-> e,
                                   failure_count |-> w1.failure_count])]

ExecuteEndMutant(wid, w, beh, elapsed) ==
    LET time_ms == elapsed * MsPerSecond IN
    IF beh.process.kind = "raise"
    THEN ExecuteExcept(wid, w, beh.process.exc, time_ms)
    ELSE IF beh.get_confidence.kind = "raise"
    THEN [worker |-> w, outcome |-> beh.get_confidence]
    ELSE LET made == WorkerResult(wid, beh.process.value, beh.get_confidence.value,
                                  time_ms, SUCCESS,
                                  [execution_count |-> w.execution_count])
         IN  [worker |-> [w EXCEPT !.status = IDLE], outcome |-> made]

\* Worker.execute from the try to its return, `elapsed` seconds after the start
ExecuteEnd(wid, w, beh, elapsed) ==
    LET time_ms == elapsed * MsPerSecond IN
    IF beh.process.kind = "raise"
    THEN ExecuteExcept(wid, w, beh.process.exc, time_ms)
    ELSE IF beh.get_confidence.kind = "raise"
    THEN ExecuteExcept(wid, w, beh.get_confidence.exc, time_ms)
    ELSE LET made == WorkerResult(wid, beh.process.value, beh.get_confidence.value,
                                  time_ms, SUCCESS,
                                  [execution_count |-> w.execution_count])
         IN  IF made.kind = "raise"
             THEN ExecuteExcept(wid, w, made.exc, time_ms)
             ELSE [worker |-> [w EXCEPT !.status = IDLE], outcome |-> made]

(***************************************************************************)
(* tsm/core/worker.py: WorkerPool                                          *)
(***************************************************************************)
VARIABLES
    registry,   \* WorkerPool.workers: the registered ids, in insertion order
    worker,     \* the Worker object registered under each id
    pc,         \* where the caller of execute_parallel is
    dispatch,   \* workers_to_execute of the call in progress
    futures,    \* the future submitted for each entry of dispatch
    finished,   \* as_completed: the futures found done when it was called
    waiter,     \* as_completed: the futures that completed since, in order
    results,    \* the results list of execute_parallel
    agg_call,   \* the strategy, results and weights of the latest aggregate call
    agg_result, \* what that aggregate call gave back
    executor,   \* WorkerPool.executor: "running", or "shutdown" once shut down
    sd,         \* where the caller of WorkerPool.shutdown is
    learner,    \* the BayesianWeightLearner
    called,     \* the method of the learner called last
    aggregator, \* the Aggregator
    calls,      \* the update_weight calls running in threads of their own
    construction \* a call of a result constructor and what it gave

poolVars == <<registry, worker, pc, dispatch, futures, finished, waiter, results>>
aggVars == <<agg_call, agg_result>>
shutdownVars == <<executor, sd>>
learnerVars == <<learner, called, aggregator, calls>>
ctorVars == <<construction>>
vars == <<poolVars, aggVars, shutdownVars, learnerVars, ctorVars>>

Range(s) == {s[i] : i \in 1..Len(s)}
Count(s, x) == Cardinality({i \in 1..Len(s) : s[i] = x})

\* the learner with the default arguments of BayesianWeightLearner.__init__
DefaultLearner == BayesianWeightLearner(Frac(1, 10), ROne, Frac(1, 100), TRUE).value

\* the pool is running, no shutdown was asked for
NoShutdown == executor = "running" /\ sd = "none"
\* a learner nothing was recorded in, an aggregator without learner
NoLearning ==
    /\ learner = DefaultLearner
    /\ called = "none"
    /\ aggregator = NewAggregator([name |-> "median"], FALSE)
    /\ calls = <<>>
\* outside the calls a specification follows, nothing has happened
NothingElse == NoShutdown /\ NoLearning /\ construction = None

\* WorkerPool.__init__
Init ==
    /\ registry = <<>>
    /\ worker = [w \in WorkerIds |-> NewWorker(TRUE, 1)]
    /\ pc = "idle"
    /\ dispatch = <<>>
    /\ futures = <<>>
    /\ finished = {}
    /\ waiter = <<>>
    /\ results = <<>>
    /\ agg_call = None
    /\ agg_result = None
    /\ NothingElse

\* the registry is set up before the pool takes the call that is followed
Startup == pc = "idle"

\* WorkerPool.register_worker
RegisterWorker(wid, enabled, timeout) ==
    /\ Startup
    /\ registry' = IF wid \in Range(registry) THEN registry ELSE Append(registry, wid)
    /\ worker' = [worker EXCEPT ![wid] = NewWorker(enabled, timeout)]
    /\ UNCHANGED <<pc, dispatch, futures, finished, waiter, results, aggVars, shutdownVars, learnerVars, ctorVars>>

\* WorkerPool.unregister_worker
UnregisterWorker(wid) ==
    /\ Startup
    /\ wid \in Range(registry)
    /\ registry' = SelectSeq(registry, LAMBDA x : x # wid)
    /\ worker' = [worker EXCEPT ![wid] = NewWorker(TRUE, 1)]
    /\ UNCHANGED <<pc, dispatch, futures, finished, waiter, results, aggVars, shutdownVars, learnerVars, ctorVars>>

\* the operator of the pool takes a worker out of service
SetStatus(wid, s) ==
    /\ Startup
    /\ wid \in Range(registry)
    /\ s \in {QUARANTINED, DISABLED}
    /\ worker[wid].status # s
    /\ worker' = [worker EXCEPT ![wid].status = s]
    /\ UNCHANGED <<registry, pc, dispatch, futures, finished, waiter, results, aggVars, shutdownVars, learnerVars, ctorVars>>

IsActiveMutant(w) == w.enabled /\ w.status \notin {QUARANTINED, DISABLED, WFAILED}

\* the condition of WorkerPool.get_active_workers
IsActive(w) == w.enabled /\ w.status \notin {QUARANTINED, DISABLED}

\* WorkerPool.get_active_workers
GetActiveWorkers == SelectSeq(registry, LAMBDA wid : IsActive(worker[wid]))

\* execute_parallel: determine which workers to execute
WorkersToExecute(worker_ids) ==
    IF worker_ids # None /\ worker_ids.ids # <<>>
    THEN SelectSeq(worker_ids.ids, LAMBDA wid : wid \in Range(registry))
    ELSE GetActiveWorkers

\* a worker_ids argument that is a list
Ids(ids) == [kind |-> "list", ids |-> ids]

NoBehaviour == [process |-> None, get_confidence |-> None]
\* completed is the future's place in the order in which set_result was called
\* (0 while the task has not finished)
NewFuture == [state |-> "pending", elapsed |-> 0, did |-> NoBehaviour, outcome |-> None, completed |-> 0]

\* execute_parallel up to the submission of the futures
ExecuteParallel(worker_ids) ==
    /\ Startup
    /\ LET todo == WorkersToExecute(worker_ids) IN
       /\ dispatch' = todo
       /\ results' = <<>>
       /\ finished' = {}
       /\ waiter' = <<>>
       /\ IF todo = <<>>
          THEN pc' = "returned" /\ futures' = <<>>
          ELSE IF executor = "shutdown"
          \* executor.submit raises RuntimeError once the executor is shut down
          THEN pc' = "raised" /\ futures' = <<>>
          ELSE pc' = "submitted" /\ futures' = [i \in 1..Len(todo) |-> NewFuture]
    /\ UNCHANGED <<registry, worker, aggVars, shutdownVars, learnerVars, ctorVars>>

\* a pool thread takes a submitted task and enters Worker.execute
WorkerBegin(i) ==
    /\ i \in 1..Len(futures)
    /\ futures[i].state = "pending"
    /\ futures' = [futures EXCEPT ![i].state = "running"]
    /\ worker' = [worker EXCEPT ![dispatch[i]] = ExecuteBegin(@)]
    /\ UNCHANGED <<registry, pc, dispatch, finished, waiter, results, aggVars, shutdownVars, learnerVars, ctorVars>>

\* a second of wall-clock time passes for the running workers
Tick ==
    /\ \E i \in 1..Len(futures) :
           futures[i].state = "running" /\ futures[i].elapsed < MaxTime
    /\ futures' = [i \in 1..Len(futures) |->
                      IF futures[i].state = "running" /\ futures[i].elapsed < MaxTime
                      THEN [futures[i] EXCEPT !.elapsed = @ + 1]
                      ELSE futures[i]]
    /\ UNCHANGED <<registry, worker, pc, dispatch, finished, waiter, results, aggVars, shutdownVars, learnerVars, ctorVars>>

\* Worker.execute returns (or raises) in its pool thread: the future is done
WorkerEnd(i, beh) ==
    /\ i \in 1..Len(futures)
    /\ futures[i].state = "running"
    /\ LET wid == dispatch[i]
           end == ExecuteEnd(wid, worker[wid], beh, futures[i].elapsed)
           nth == Cardinality({j \in 1..Len(futures) : futures[j].state = "done"}) + 1
       IN  /\ futures' = [futures EXCEPT ![i].state = "done",
                                         ![i].did = beh,
                                         ![i].outcome = end.outcome,
                                         ![i].completed = nth]
           /\ worker' = [worker EXCEPT ![wid] = end.worker]
    /\ waiter' = IF pc = "collect" THEN Append(waiter, i) ELSE waiter
    /\ UNCHANGED <<registry, pc, dispatch, finished, results, aggVars, shutdownVars, learnerVars, ctorVars>>

\* as_completed(futures) is entered: the futures already done are set aside
AsCompleted ==
    /\ pc = "submitted"
    /\ finished' = {i \in 1..Len(futures) : futures[i].state = "done"}
    /\ pc' = "collect"
    /\ UNCHANGED <<registry, worker, dispatch, futures, waiter, results, aggVars, shutdownVars, learnerVars, ctorVars>>

\* the body of the collection loop for a future as_completed has yielded;
\* future.result(timeout) on a done future gives its outcome at once
CollectResult(wid, w, outcome) ==
    IF outcome.kind = "return"
    THEN outcome.value
    ELSE IF outcome.exc = "TimeoutError"
    THEN WorkerResult(wid, None, RZero, w.timeout_seconds * MsPerSecond, TIMEOUT,
                      [trace |-> None]).value
    ELSE WorkerResult(wid, None, RZero, 0, FAILED, [error |-> outcome.exc]).value

CollectMutant(i) ==
    /\ pc = "collect"
    /\ \/ i \in finished
       \/ finished = {} /\ waiter # <<>> /\ i = Head(waiter)
    /\ LET r == CollectResult(dispatch[i], worker[dispatch[i]], futures[i].outcome)
       IN  results' = IF r.status = FAILED THEN <<r>> ELSE Append(results, r)
    /\ finished' = finished \ {i}
    /\ waiter' = IF i \in finished THEN waiter ELSE Tail(waiter)
    /\ UNCHANGED <<registry, worker, pc, dispatch, futures, aggVars, shutdownVars, learnerVars, ctorVars>>

\* one iteration of `for future in as_completed(futures)`
Collect(i) ==
    /\ pc = "collect"
    /\ \/ i \in finished
       \/ finished = {} /\ waiter # <<>> /\ i = Head(waiter)
    /\ results' = Append(results,
                         CollectResult(dispatch[i], worker[dispatch[i]], futures[i].outcome))
    /\ finished' = finished \ {i}
    /\ waiter' = IF i \in finished THEN waiter ELSE Tail(waiter)
    /\ UNCHANGED <<registry, worker, pc, dispatch, futures, aggVars, shutdownVars, learnerVars, ctorVars>>

\* as_completed is exhausted: execute_parallel returns results
Return ==
    /\ pc = "collect"
    /\ \A i \in 1..Len(futures) : futures[i].state = "done"
    /\ finished = {}
    /\ waiter = <<>>
    /\ pc' = "returned"
    /\ UNCHANGED <<registry, worker, dispatch, futures, finished, waiter, results, aggVars, shutdownVars, learnerVars, ctorVars>>

Next ==
    \/ \E wid \in WorkerIds, enabled \in BOOLEAN, timeout \in Timeouts :
           RegisterWorker(wid, enabled, timeout)
    \/ \E wid \in WorkerIds : UnregisterWorker(wid)
    \/ \E wid \in WorkerIds, s \in {QUARANTINED, DISABLED} : SetStatus(wid, s)
    \/ \E worker_ids \in {None} \cup {Ids(ids) : ids \in WorkerIdLists} :
           ExecuteParallel(worker_ids)
    \/ \E i \in 1..Len(futures) : WorkerBegin(i)
    \/ Tick
    \/ \E i \in 1..Len(futures), beh \in Behaviours : WorkerEnd(i, beh)
    \/ AsCompleted
    \/ \E i \in 1..Len(futures) : Collect(i)
    \/ Return

Spec == Init /\ [][Next]_vars

(***************************************************************************)
(* Properties of Worker.execute and WorkerPool.execute_parallel            *)
(***************************************************************************)
ResultsOf(wid) == {k \in 1..Len(results) : results[k].worker_id = wid}
TimeoutOf(i) == worker[dispatch[i]].timeout_seconds
\* the worker of future i ran, or is running, past its configured timeout
Overran(i) == futures[i].state \in {"running", "done"} /\ futures[i].elapsed > TimeoutOf(i)

\* C1: when execute_parallel returns, every dispatched worker that was still
\* running after its timeout_seconds has exactly one result, a TIMEOUT result
\* with confidence 0 and processing time equal to the timeout.
C1_TimeoutYieldsTimeoutResult ==
    pc = "returned" =>
        \A i \in 1..Len(dispatch) :
            Overran(i) =>
                /\ Cardinality(ResultsOf(dispatch[i])) = 1
                /\ \A k \in ResultsOf(dispatch[i]) :
                       /\ results[k].status = TIMEOUT
                       /\ results[k].confidence = RZero
                       /\ results[k].processing_time_ms = TimeoutOf(i) * MsPerSecond

\* C2: execute_parallel never stays blocked once every dispatched worker has
\* completed or exceeded its timeout: it then has a completed future to take
\* or nothing left to wait for.
C2_NoWaitPastTimeout ==
    (/\ pc = "collect"
     /\ \A i \in 1..Len(futures) : futures[i].state = "done" \/ Overran(i))
    => \/ finished # {}
       \/ waiter # <<>>
       \/ \A i \in 1..Len(futures) : futures[i].state = "done"

Raised(beh) == beh.process.kind = "raise" \/ beh.get_confidence.kind = "raise"
RaisedError(beh) ==
    IF beh.process.kind = "raise" THEN beh.process.exc ELSE beh.get_confidence.exc

\* C3: Worker.execute never raises: every finished execution gave back a
\* WorkerResult, and when process or get_confidence raised it is a FAILED result
\* with confidence 0, value None and the error description in metadata.
C3_ExecuteNeverRaises ==
    \A i \in 1..Len(futures) :
        futures[i].state = "done" =>
            /\ futures[i].outcome.kind = "return"
            /\ Raised(futures[i].did) =>
                   LET r == futures[i].outcome.value IN
                   /\ r.worker_id = dispatch[i]
                   /\ r.status = FAILED
                   /\ r.confidence = RZero
                   /\ r.value = None
                   /\ "error" \in DOMAIN r.metadata
                   /\ r.metadata.error = RaisedError(futures[i].did)

C3_Witness ==
    \E i \in 1..Len(futures) :
        /\ futures[i].state = "done"
        /\ futures[i].did.process.kind = "return"
        /\ futures[i].did.get_confidence.kind = "raise"

\* C4 as claimed: the returned list holds exactly one WorkerResult for each
\* dispatched worker, and none for any other worker.
C4_OneResultPerWorker ==
    pc = "returned" =>
        /\ \A wid \in Range(dispatch) : Cardinality(ResultsOf(wid)) = 1
        /\ \A k \in 1..Len(results) : results[k].worker_id \in Range(dispatch)

\* C4 as amended: the returned list holds exactly one WorkerResult for each
\* entry of the dispatch list, carrying that entry's worker_id, whatever the
\* outcomes: a worker named n times in worker_ids has n results.
C4_OneResultPerDispatch ==
    pc = "returned" =>
        /\ Len(results) = Len(dispatch)
        /\ \A wid \in WorkerIds : Cardinality(ResultsOf(wid)) = Count(dispatch, wid)

C4_Witness ==
    /\ pc = "returned"
    /\ \E j, k \in 1..Len(results) :
           /\ results[j].status = FAILED
           /\ results[k].status = SUCCESS
           /\ results[j].worker_id # results[k].worker_id

C6_NoActiveWorkersEmptyResult ==
    [][(pc = "idle" /\ pc' # "idle" /\ GetActiveWorkers = <<>>) =>
           (pc' = "returned" /\ results' = <<>> /\ futures' = <<>>)]_vars

(***************************************************************************)
(* Aggregation: the strategies are run on lists of worker results          *)
(***************************************************************************)
\* the calls of strategy.aggregate(results, weights) that are checked
AggCalls ==
    [strategy : Strategies, results : ResultLists, weights : WeightMaps]

InitAgg ==
    /\ registry = <<>>
    /\ worker = [w \in WorkerIds |-> NewWorker(TRUE, 1)]
    /\ pc = "idle"
    /\ dispatch = <<>>
    /\ futures = <<>>
    /\ finished = {}
    /\ waiter = <<>>
    /\ results = <<>>
    /\ agg_call \in AggCalls
    /\ agg_result = None
    /\ NothingElse

\* the strategy runs on the results and weights it was called with
Aggregate ==
    /\ agg_result = None
    /\ agg_result' = StrategyAggregate(agg_call.strategy, agg_call.results,
                                       agg_call.weights)
    /\ UNCHANGED <<agg_call, poolVars, shutdownVars, learnerVars, ctorVars>>

NextAgg == Aggregate

SpecAgg == InitAgg /\ [][NextAgg]_vars

(***************************************************************************)
(* Properties of the aggregation strategies                                *)
(***************************************************************************)
Aggregated == agg_result.kind # "none"
Called(name) == Aggregated /\ agg_call.strategy.name = name
\* the results of the call that count as valid: SUCCESS with confidence > 0
ValidOnes == {i \in 1..Len(agg_call.results) :
                  /\ agg_call.results[i].status = SUCCESS
                  /\ agg_call.results[i].confidence # RZero}
ValidPart == SelectSeq(agg_call.results,
                       LAMBDA r : r.status = SUCCESS /\ r.confidence # RZero)
NumericValid == \A i \in ValidOnes : agg_call.results[i].value.kind = "num"

\* C7: a strategy given no valid result (every result not SUCCESS or with
\* confidence 0, or no result at all) returns, without raising, the sentinel:
\* value None, confidence 0, no weights, an error entry in metadata, and
\* worker_results holding all the input results.
C7_NoValidResultsSentinel ==
    (Aggregated /\ ValidOnes = {}) =>
        /\ agg_result.kind = "return"
        /\ agg_result.value.value = None
        /\ agg_result.value.confidence = RZero
        /\ DOMAIN agg_result.value.weights = {}
        /\ "error" \in DOMAIN agg_result.value.metadata
        /\ agg_result.value.worker_results = agg_call.results

C7_Witness ==
    /\ Called("median")
    /\ ValidOnes = {}
    /\ \E i, j \in 1..Len(agg_call.results) :
           /\ agg_call.results[i].status = SUCCESS
           /\ agg_call.results[j].status = TIMEOUT

\* C8: the aggregated value, confidence and weights are those the strategy
\* gives for the valid results alone: results that are FAILED, TIMEOUT, ANOMALY
\* or have confidence 0 change none of them.
C8_OnlyValidResultsCount ==
    Aggregated =>
        LET alone == StrategyAggregate(agg_call.strategy, ValidPart, agg_call.weights)
        IN  /\ agg_result.kind = "return"
            /\ alone.kind = "return"
            /\ agg_result.value.value = alone.value.value
            /\ agg_result.value.confidence = alone.value.confidence
            /\ agg_result.value.weights = alone.value.weights

C8_Witness ==
    /\ Aggregated
    /\ agg_result.value.value # None
    /\ ValidOnes # {}
    /\ \E i, j \in 1..Len(agg_call.results) :
           /\ agg_call.results[i].status = ANOMALY
           /\ agg_call.results[j].status = SUCCESS
           /\ agg_call.results[j].confidence = RZero

RecordedWeights == agg_result.value.weights
RecordedWeightSum == SumValues(RecordedWeights, DOMAIN RecordedWeights)

\* C9 as claimed: whenever weighted-average aggregation is given at least one
\* valid result, the weights recorded in the AggregatedResult sum to 1.
C9_WeightsSumToOne ==
    (Called("weighted_average") /\ ValidOnes # {}) =>
        /\ agg_result.kind = "return"
        /\ RecordedWeightSum = ROne

\* C9 as amended: whenever weighted-average aggregation is given at least one
\* valid result and every valid value is numeric, the recorded weights are
\* those of the valid workers and sum to 1.
C9_NumericWeightsSumToOne ==
    (Called("weighted_average") /\ ValidOnes # {} /\ NumericValid) =>
        /\ agg_result.kind = "return"
        /\ DOMAIN RecordedWeights = {agg_call.results[i].worker_id : i \in ValidOnes}
        /\ RecordedWeightSum = ROne

C9_Witness ==
    /\ Called("weighted_average")
    /\ Cardinality(ValidOnes) >= 2
    /\ NumericValid
    /\ agg_call.weights.kind = "dict"
    /\ \A wid \in DOMAIN RecordedWeights :
           wid \in DOMAIN agg_call.weights.d /\ agg_call.weights.d[wid] = RZero

\* the base weight of a worker: its entry in the weights given, else 1.0
BaseWeightOf(wid) ==
    IF agg_call.weights.kind = "dict" /\ wid \in DOMAIN agg_call.weights.d
    THEN agg_call.weights.d[wid]
    ELSE ROne
\* base weight x confidence, or the base weight with the confidence factor off
EffectiveWeightOf(i) ==
    IF agg_call.strategy.use_confidence
    THEN RMul(BaseWeightOf(agg_call.results[i].worker_id), agg_call.results[i].confidence)
    ELSE BaseWeightOf(agg_call.results[i].worker_id)

\* the sum of f(i) over the indices i in S
SumOver(S, f(_)) ==
    LET idx == SeqOfSet(S) IN SumSeq([k \in 1..Len(idx) |-> f(idx[k])])

TotalEffectiveWeight == SumOver(ValidOnes, EffectiveWeightOf)
NormalizedWeightOf(i) ==
    IF TotalEffectiveWeight = RZero
    THEN Frac(1, Cardinality(ValidOnes))
    ELSE RDiv(EffectiveWeightOf(i), TotalEffectiveWeight)
WeightedValue(i) == RMul(agg_call.results[i].value.q, NormalizedWeightOf(i))
WeightedConfidence(i) == RMul(agg_call.results[i].confidence, NormalizedWeightOf(i))

\* C10: weighted-average aggregation over numeric valid results returns
\* value = sum of value_i x normalized_weight_i and confidence = sum of
\* confidence_i x normalized_weight_i, the normalized weight being the
\* effective weight (base_weight_i x confidence_i, or base_weight_i alone)
\* divided by the total, and 1/n when the total is 0.
C10_WeightedAverageFormula ==
    (Called("weighted_average") /\ ValidOnes # {} /\ NumericValid) =>
        /\ agg_result.kind = "return"
        /\ agg_result.value.value = Num(SumOver(ValidOnes, WeightedValue))
        /\ agg_result.value.confidence = SumOver(ValidOnes, WeightedConfidence)

\* values 10, 12, 14 with equal weights and confidence 1.0 give 12 and 1.0
C10_Witness ==
    /\ Called("weighted_average")
    /\ agg_call.weights = NoWeights
    /\ Len(agg_call.results) = 3
    /\ \A i \in 1..3 :
           /\ agg_call.results[i].status = SUCCESS
           /\ agg_call.results[i].confidence = ROne
           /\ agg_call.results[i].value = Num(RInt(8 + 2 * i))
    /\ agg_result.value.value = Num(RInt(12))
    /\ agg_result.value.confidence = ROne

(***************************************************************************)
(* Properties of majority voting                                           *)
(***************************************************************************)
\* the values the valid results vote for
VotedValues == {agg_call.results[i].value : i \in ValidOnes}
VotersOf(v) == {i \in ValidOnes : agg_call.results[i].value = v}
\* the place in the result list where a value is first seen
FirstSeen(v) == CHOOSE i \in VotersOf(v) : \A j \in VotersOf(v) : i <= j
\* base weight x confidence of a result
ConfidenceWeightOf(i) ==
    RMul(BaseWeightOf(agg_call.results[i].worker_id), agg_call.results[i].confidence)

\* the score of a value: the sum of weight(i) over the valid results voting for it
ScoreOf(v, weight(_)) == SumOver(VotersOf(v), weight)
TotalScore(weight(_)) == SumOver(ValidOnes, weight)
\* v has the highest score, and every value seen before it a lower one
IsWinner(v, weight(_)) ==
    /\ v \in VotedValues
    /\ \A u \in VotedValues :
           /\ RLe(ScoreOf(u, weight), ScoreOf(v, weight))
           /\ FirstSeen(u) < FirstSeen(v) => RLt(ScoreOf(u, weight), ScoreOf(v, weight))
Agreement(v) == Frac(Cardinality(VotersOf(v)), Cardinality(ValidOnes))

\* what majority voting gave back agrees with the scores given by weight
MajorityOutcome(weight(_)) ==
    /\ agg_result.kind = "return"
    /\ IsWinner(agg_result.value.value, weight)
    /\ RMul(agg_result.value.confidence, TotalScore(weight))
           = ScoreOf(agg_result.value.value, weight)
    /\ agg_result.value.metadata.agreement = Agreement(agg_result.value.value)

\* C11 as claimed: majority voting returns the value with the highest total
\* score, a value's score being the sum of base_weight x confidence over the
\* valid results voting for it and a tie going to the value seen first; the
\* confidence is winning_score / total_score and the agreement the fraction of
\* valid results voting for the winner.
C11_MajorityByConfidenceScore ==
    (Called("majority_voting") /\ ValidOnes # {}) =>
        MajorityOutcome(ConfidenceWeightOf)

\* C11 as amended: the score is the sum of base_weight x confidence with the
\* confidence factor on and the sum of base_weight alone with it off; the
\* confidence is winning_score / total_score, and 0 when the total score is 0.
C11_MajorityByEffectiveScore ==
    (Called("majority_voting") /\ ValidOnes # {}) =>
        /\ MajorityOutcome(EffectiveWeightOf)
        /\ TotalScore(EffectiveWeightOf) = RZero => agg_result.value.confidence = RZero

\* a tie between 12, seen first, and 10, voted twice with confidence 0.5 each
C11_Witness ==
    /\ Called("majority_voting")
    /\ agg_call.strategy.use_confidence
    /\ agg_call.weights = NoWeights
    /\ Len(agg_call.results) = 3
    /\ \A i \in 1..3 : agg_call.results[i].status = SUCCESS
    /\ agg_call.results[1].value = Num(RInt(12))
    /\ agg_call.results[1].confidence = ROne
    /\ \A i \in 2..3 :
           /\ agg_call.results[i].value = Num(RInt(10))
           /\ agg_call.results[i].confidence = Frac(1, 2)
    /\ agg_result.value.value = Num(RInt(12))
    /\ agg_result.value.confidence = Frac(1, 2)
    /\ agg_result.value.metadata.agreement = Frac(1, 3)

(***************************************************************************)
(* Properties of median aggregation and of the numeric strategies          *)
(***************************************************************************)
\* the one valid result, when there is exactly one
TheValidOne == agg_call.results[CHOOSE i \in ValidOnes : TRUE]
AllValuesEqual ==
    \A i, j \in ValidOnes : agg_call.results[i].value = agg_call.results[j].value
MeanValidConfidence ==
    RDiv(SumOver(ValidOnes, LAMBDA i : agg_call.results[i].confidence),
         RInt(Cardinality(ValidOnes)))

C13_EqualValuesFullConfidence ==
    (Called("median") /\ Cardinality(ValidOnes) >= 2 /\ AllValuesEqual) =>
        /\ agg_result.kind = "return"
        /\ agg_result.value.confidence = ROne

\* C13 as amended: over two or more valid results whose values are one and the
\* same number, the consistency term is 1.0 and the AggregatedResult has
\* confidence (1.0 + mean of the workers' confidences) / 2, which is 1.0 only
\* when every worker's confidence is 1.0.
C13_EqualValuesAveragedConfidence ==
    (Called("median") /\ Cardinality(ValidOnes) >= 2 /\ AllValuesEqual /\ NumericValid) =>
        /\ agg_result.kind = "return"
        /\ agg_result.value.value = TheValidOne.value
        /\ agg_result.value.metadata.value_range = RZero
        /\ agg_result.value.confidence
               = RDiv(RAdd(ROne, MeanValidConfidence), RInt(2))

C13_Witness ==
    /\ Called("median")
    /\ Cardinality(ValidOnes) = 2
    /\ AllValuesEqual
    /\ NumericValid
    /\ MeanValidConfidence = Frac(3, 4)
    /\ agg_result.value.confidence = Frac(7, 8)

\* C14: when a valid result carries a non-numeric value, the weighted-average
\* and median strategies do not raise: they return the sentinel (value None,
\* confidence 0, no weights) with an error message in metadata.
C14_NonNumericSentinel ==
    ((Called("weighted_average") \/ Called("median")) /\ ~NumericValid) =>
        /\ agg_result.kind = "return"
        /\ agg_result.value.value = None
        /\ agg_result.value.confidence = RZero
        /\ DOMAIN agg_result.value.weights = {}
        /\ "error" \in DOMAIN agg_result.value.metadata
        /\ agg_result.value.metadata.error = "Non-numerical values"
        /\ agg_result.value.worker_results = agg_call.results

\* a label next to a number, both valid
C14_Witness ==
    /\ Called("median")
    /\ Cardinality(ValidOnes) = 2
    /\ \E i, j \in ValidOnes :
           /\ agg_call.results[i].value = Num(RInt(12))
           /\ agg_call.results[j].value = Label("high")
    /\ agg_result.value.value = None

(***************************************************************************)
(* Weight learning: a BayesianWeightLearner takes performance observations *)
(***************************************************************************)
\* observations a learner is followed for
MaxUpdates == 3

\* the observation of the worked example: accuracy 0.5
HalfRight == PerformanceMetric(ROne, Frac(1, 2))
\* a wrong prediction made with confidence 0.5
AllWrong == PerformanceMetric(Frac(1, 2), RZero)
\* the metrics observed: one has confidence 0, and since PerformanceMetric
\* checks neither field, one has an accuracy below 0 and a confidence above 1
Metrics ==
    {HalfRight, AllWrong,
     PerformanceMetric(RZero, ROne),
     PerformanceMetric(RInt(2), RInt(-1))}

\* the learners constructed: the arguments __init__ accepts
Learners ==
    {made.value :
         made \in {c \in {BayesianWeightLearner(alpha, prior_weight, min_weight, scaling) :
                              alpha \in {Frac(1, 5), ROne},
                              prior_weight \in {ROne, Frac(1, 2)},
                              min_weight \in {Frac(1, 100), Frac(1, 2)},
                              scaling \in BOOLEAN} :
                       c.kind = "return"}}

\* the metric lists of a batch
BatchLists == {<<>>, <<AllWrong>>, <<HalfRight, HalfRight>>}
\* the dicts given to batch_update, as their items in insertion order
Batches ==
    {<<>>}
    \cup {<<[worker_id |-> w, metrics |-> l]>> : w \in WorkerIds, l \in BatchLists}
    \cup {<<[worker_id |-> p[1], metrics |-> l1], [worker_id |-> p[2], metrics |-> l2]>> :
              p \in {q \in WorkerIds \X WorkerIds : q[1] # q[2]},
              l1 \in BatchLists, l2 \in BatchLists}

\* the number of observations in a batch
BatchSize(metrics) == SumSeq([k \in 1..Len(metrics) |-> RInt(Len(metrics[k].metrics))])[1]
\* the number of observations the learner has taken
Observed(wid) == IF wid \in DOMAIN learner.history THEN Len(learner.history[wid]) ELSE 0
RECURSIVE ObservedBy(_)
ObservedBy(S) ==
    IF S = {} THEN 0
    ELSE LET wid == CHOOSE wid \in S : TRUE IN Observed(wid) + ObservedBy(S \ {wid})
TotalObserved == ObservedBy(WorkerIds)

\* no pool call is in progress and none was made
NoPool ==
    /\ registry = <<>>
    /\ worker = [w \in WorkerIds |-> NewWorker(TRUE, 1)]
    /\ pc = "idle"
    /\ dispatch = <<>>
    /\ futures = <<>>
    /\ finished = {}
    /\ waiter = <<>>
    /\ results = <<>>

InitLearner ==
    /\ NoPool
    /\ NoShutdown
    /\ agg_call = None
    /\ agg_result = None
    /\ construction = None
    /\ learner \in Learners
    /\ called = "none"
    /\ calls = <<>>
    /\ aggregator = NewAggregator([name |-> "median"], TRUE)

\* learner.update_weight(worker_id, metric)
UpdateWeight(worker_id, metric) ==
    /\ TotalObserved < MaxUpdates
    /\ learner' = update_weight(learner, worker_id, metric)
    /\ called' = "update_weight"
    /\ UNCHANGED <<aggregator, calls, poolVars, aggVars, shutdownVars, ctorVars>>

\* learner.batch_update(metrics)
BatchUpdate(metrics) ==
    /\ TotalObserved + BatchSize(metrics) <= MaxUpdates
    /\ learner' = batch_update(learner, metrics)
    /\ called' = "batch_update"
    /\ UNCHANGED <<aggregator, calls, poolVars, aggVars, shutdownVars, ctorVars>>

\* learner.reset_worker(worker_id)
ResetWorker(worker_id) ==
    /\ learner' = reset_worker(learner, worker_id)
    /\ called' = "reset_worker " \o worker_id
    /\ UNCHANGED <<aggregator, calls, poolVars, aggVars, shutdownVars, ctorVars>>

NextLearner ==
    \/ \E worker_id \in WorkerIds, metric \in Metrics : UpdateWeight(worker_id, metric)
    \/ \E metrics \in Batches : BatchUpdate(metrics)
    \/ \E worker_id \in WorkerIds : ResetWorker(worker_id)

SpecLearner == InitLearner /\ [][NextLearner]_vars

(***************************************************************************)
(* Properties of the weight learner                                        *)
(***************************************************************************)
\* an update_weight call for wid is the step being taken
UpdateStep(wid) ==
    /\ called' = "update_weight"
    /\ wid \in DOMAIN learner'.history
    /\ Len(learner'.history[wid]) = Observed(wid) + 1
\* the weight the update rule gives: max(w x (1 - a) + accuracy x a, min_weight)
RuleWeight(w, a, accuracy, min_weight) ==
    LET moved == RAdd(RMul(w, RSub(ROne, a)), RMul(accuracy, a))
    IN  IF RLt(moved, min_weight) THEN min_weight ELSE moved
\* the weight of wid after one more observation, by the rule
RuleStep(wid) ==
    LET seen == learner'.history[wid][Len(learner'.history[wid])]
        w == IF Observed(wid) = 0 THEN learner.prior_weight ELSE learner.weights[wid]
        a == IF learner.confidence_scaling
             THEN RMul(learner.alpha, seen.confidence)
             ELSE learner.alpha
    IN  learner'.weights[wid] = RuleWeight(w, a, seen.accuracy, learner.min_weight)
\* the worked example: alpha 0.2, prior 1.0, no scaling, accuracy 0.5
ExampleLearner ==
    /\ learner.alpha = Frac(1, 5)
    /\ learner.prior_weight = ROne
    /\ ~learner.confidence_scaling
ExampleAfter(wid, n) ==
    /\ Observed(wid) = n
    /\ \A k \in 1..n : learner.history[wid][k].accuracy = Frac(1, 2)

\* C15: update_weight sets the worker's weight to
\* max(w x (1 - a) + accuracy x a, min_weight), w being the worker's current
\* weight (the prior on its first observation) and a being alpha x confidence
\* with confidence scaling and alpha without; with alpha 0.2, prior 1.0 and no
\* scaling, observations of accuracy 0.5 move the weight 1.0 -> 0.9 -> 0.82.
C15_BayesianUpdateRule ==
    /\ [][\A wid \in WorkerIds : UpdateStep(wid) => RuleStep(wid)]_vars
    /\ [](\A wid \in WorkerIds :
              ExampleLearner =>
                  /\ ExampleAfter(wid, 1) => learner.weights[wid] = Frac(9, 10)
                  /\ ExampleAfter(wid, 2) => learner.weights[wid] = Frac(41, 50))

C15_Witness ==
    /\ ExampleLearner
    /\ called = "update_weight"
    /\ ExampleAfter("w1", 2)
    /\ learner.weights["w1"] = Frac(41, 50)
    /\ Observed("w2") = 1

\* C16: after any sequence of update_weight and batch_update calls, with any
\* accuracies and confidences, every weight the learner holds is at least the
\* configured min_weight.
C16_WeightNeverBelowFloor ==
    \A wid \in DOMAIN learner.weights :
        RLe(learner.min_weight, learner.weights[wid])

\* a batch whose last observation would have taken the weight below the floor
C16_Witness ==
    /\ called = "batch_update"
    /\ TotalObserved = MaxUpdates
    /\ \E wid \in DOMAIN learner.weights :
           /\ learner.weights[wid] = learner.min_weight
           /\ learner.history[wid][Observed(wid)] = AllWrong
           /\ learner.alpha = ROne
           /\ ~learner.confidence_scaling

(***************************************************************************)
(* The Aggregator: a strategy and a learner whose weights it reads         *)
(***************************************************************************)
\* the strategies the aggregator is given
AggregatorStrategies ==
    {[name |-> "weighted_average", use_confidence |-> TRUE],
     [name |-> "majority_voting", use_confidence |-> TRUE],
     [name |-> "confidence_based"]}

\* the result lists it aggregates; no observation is ever made of w3
AggregatorInputs ==
    {<<WorkerResult("w1", Num(RInt(10)), ROne, 0, SUCCESS, <<>>).value,
       WorkerResult("w2", Num(RInt(12)), ROne, 0, SUCCESS, <<>>).value>>,
     <<WorkerResult("w1", Num(RInt(10)), Frac(1, 2), 0, SUCCESS, <<>>).value,
       WorkerResult("w2", None, RZero, 0, FAILED, <<>>).value,
       WorkerResult("w3", Num(RInt(14)), ROne, 0, SUCCESS, <<>>).value>>}

\* the learners it is coupled with
AggregatorLearners ==
    {BayesianWeightLearner(Frac(1, 5), ROne, Frac(1, 100), FALSE).value,
     BayesianWeightLearner(ROne, Frac(1, 2), Frac(1, 2), TRUE).value}

InitAggregator ==
    /\ NoPool
    /\ NoShutdown
    /\ agg_call = None
    /\ agg_result = None
    /\ construction = None
    /\ learner \in AggregatorLearners
    /\ called = "none"
    /\ calls = <<>>
    /\ aggregator \in {NewAggregator(strategy, has_learner) :
                           strategy \in AggregatorStrategies, has_learner \in BOOLEAN}

\* Aggregator.aggregate(results)
AggregatorAggregate(given) ==
    LET weights == LearnedWeights(aggregator, learner, agg_call) IN
    /\ agg_call' = [strategy |-> aggregator.strategy, results |-> given,
                    weights |-> weights]
    /\ agg_result' = StrategyAggregate(aggregator.strategy, given, weights)
    /\ UNCHANGED <<poolVars, shutdownVars, learnerVars, ctorVars>>

SetStrategyMutant(strategy) ==
    /\ strategy # aggregator.strategy
    /\ aggregator' = NewAggregator(strategy, FALSE)
    /\ UNCHANGED <<learner, called, calls, poolVars, aggVars, shutdownVars, ctorVars>>

\* Aggregator.set_strategy(strategy)
SetStrategy(strategy) ==
    /\ strategy # aggregator.strategy
    /\ aggregator' = [aggregator EXCEPT !.strategy = strategy]
    /\ UNCHANGED <<learner, called, calls, poolVars, aggVars, shutdownVars, ctorVars>>

\* Aggregator.set_weight_learner: the learner is attached, or None is
SetWeightLearner(has_learner) ==
    /\ has_learner # aggregator.has_learner
    /\ aggregator' = [aggregator EXCEPT !.has_learner = has_learner]
    /\ UNCHANGED <<learner, called, calls, poolVars, aggVars, shutdownVars, ctorVars>>

NextAggregator ==
    \/ \E worker_id \in WorkerIds, metric \in {HalfRight, AllWrong} :
           UpdateWeight(worker_id, metric)
    \/ \E given \in AggregatorInputs : AggregatorAggregate(given)
    \/ \E strategy \in AggregatorStrategies : SetStrategy(strategy)
    \/ \E has_learner \in BOOLEAN : SetWeightLearner(has_learner)

SpecAggregator == InitAggregator /\ [][NextAggregator]_vars

(***************************************************************************)
(* Properties of the Aggregator                                            *)
(***************************************************************************)
\* an Aggregator.aggregate call is the step being taken
AggregateStep == agg_call' # agg_call

RECURSIVE Replayed(_, _)
\* the weight the update rule gives after the observations of past, in order
Replayed(w, past) ==
    IF past = <<>> THEN w
    ELSE Replayed(RuleWeight(w,
                             IF learner.confidence_scaling
                             THEN RMul(learner.alpha, Head(past).confidence)
                             ELSE learner.alpha,
                             Head(past).accuracy, learner.min_weight),
                  Tail(past))
\* the workers update_weight was called for, and the weight each then has
ObservedWorkers == {wid \in WorkerIds : Observed(wid) > 0}
WeightAfterUpdates(wid) == Replayed(learner.prior_weight, learner.history[wid])

\* the valid workers of the call just made
ValidWorkers == {r.worker_id : r \in {x \in Range(agg_call'.results) : IsValid(x)}}
\* strategies other than weighted average record the base weights they used
RecordsBaseWeights ==
    /\ agg_call'.strategy.name # "weighted_average"
    /\ agg_result'.kind = "return"
    /\ DOMAIN agg_result'.value.weights # {}

\* C18: Aggregator.aggregate reads the learner's weights at each call: the
\* weights it passes to the strategy are those every update_weight call
\* completed before has left, nothing being kept from earlier calls; without
\* a learner every valid worker gets the same base weight.
C18_LiveLearnerWeights ==
    [][AggregateStep =>
          /\ aggregator.has_learner =>
                 /\ agg_call'.weights.kind = "dict"
                 /\ DOMAIN agg_call'.weights.d = ObservedWorkers
                 /\ \A wid \in ObservedWorkers :
                        agg_call'.weights.d[wid] = WeightAfterUpdates(wid)
                 /\ RecordsBaseWeights =>
                        \A wid \in ValidWorkers \cap ObservedWorkers :
                            agg_result'.value.weights[wid] = WeightAfterUpdates(wid)
          /\ ~aggregator.has_learner =>
                 /\ agg_call'.weights = NoWeights
                 /\ RecordsBaseWeights =>
                        \A wid \in ValidWorkers : agg_result'.value.weights[wid] = ROne
      ]_vars

\* the weights of the latest call are those left by two observations of w1
C18_Witness ==
    /\ aggregator.has_learner
    /\ Observed("w1") = 2
    /\ Observed("w2") = 1
    /\ "weights" \in DOMAIN agg_call
    /\ agg_call.weights = Dict(learner.weights)
    /\ agg_call.strategy.name = "confidence_based"
    /\ agg_result.value.weights["w1"] = learner.weights["w1"]
    /\ learner.weights["w1"] = Frac(41, 50)

\* C19: aggregation changes no state outside its result: Aggregator.aggregate
\* and the strategy leave the input results, the weights map and the learner's
\* weights, history and update counts as they were, and set_strategy leaves
\* the attached learner and its accumulated weights as they were.
C19_AggregationChangesNothing ==
    [][/\ AggregateStep =>
              /\ learner' = learner
              /\ aggregator' = aggregator
              /\ agg_result'.kind = "return"
              /\ agg_result'.value.worker_results = agg_call'.results
              /\ agg_call'.weights =
                     IF aggregator.has_learner THEN Dict(learner'.weights) ELSE NoWeights
       /\ aggregator'.strategy # aggregator.strategy =>
              /\ learner' = learner
              /\ aggregator'.has_learner = aggregator.has_learner
      ]_vars

\* a strategy change after an aggregation with learned weights
C19_Witness ==
    /\ aggregator.has_learner
    /\ TotalObserved = MaxUpdates
    /\ "weights" \in DOMAIN agg_call
    /\ agg_call.weights = Dict(learner.weights)
    /\ agg_call.strategy # aggregator.strategy

(***************************************************************************)
(* Construction of the result records                                      *)
(***************************************************************************)
\* the confidences and processing times the constructors are called with
ConstructorConfidences ==
    {Frac(-1, 2), Frac(-1, 100), RZero, Frac(1, 2), ROne, Frac(101, 100), RInt(2)}
ConstructorTimes == {-1000, -1, 0, 1, 1000}

ConstructorCalls ==
    [class : {"WorkerResult", "AggregatedResult"},
     confidence : ConstructorConfidences,
     processing_time_ms : ConstructorTimes,
     outcome : {None}]

InitResult ==
    /\ NoPool
    /\ NoShutdown
    /\ NoLearning
    /\ agg_call = None
    /\ agg_result = None
    /\ construction \in ConstructorCalls

\* WorkerResult(...) or AggregatedResult(...) is called
Construct ==
    /\ construction.outcome = None
    /\ construction' =
           [construction EXCEPT !.outcome =
                IF construction.class = "WorkerResult"
                THEN WorkerResult("w1", Num(RInt(10)), construction.confidence,
                                  construction.processing_time_ms, SUCCESS, <<>>)
                ELSE AggregatedResult(Num(RInt(10)), construction.confidence, <<>>, <<>>,
                                      "median", construction.processing_time_ms, <<>>)]
    /\ UNCHANGED <<poolVars, aggVars, shutdownVars, learnerVars>>

NextResult == Construct

SpecResult == InitResult /\ [][NextResult]_vars

\* the arguments of the construction are in range
ConfidenceInRange ==
    RLe(RZero, construction.confidence) /\ RLe(construction.confidence, ROne)
TimeInRange == construction.processing_time_ms >= 0
Constructed == "outcome" \in DOMAIN construction /\ construction.outcome # None

\* C17: constructing a WorkerResult or an AggregatedResult with confidence
\* outside [0,1] or with a negative processing time fails with an error; every
\* record that is constructed has confidence in [0,1] and processing time >= 0.
C17_ConstructionValidated ==
    Constructed =>
        /\ ~(ConfidenceInRange /\ TimeInRange) => construction.outcome.kind = "raise"
        /\ construction.outcome.kind = "return" =>
               /\ RLe(RZero, construction.outcome.value.confidence)
               /\ RLe(construction.outcome.value.confidence, ROne)
               /\ construction.outcome.value.processing_time_ms >= 0

(***************************************************************************)
(* Shutdown of a pool, also while an execute_parallel call is in progress  *)
(***************************************************************************)
\* the registries of the pools that are shut down
ShutdownRegistries == {<<"w1">>, <<"w1", "w2">>}

InitShutdown ==
    /\ registry \in ShutdownRegistries
    /\ worker = [w \in WorkerIds |-> NewWorker(TRUE, 1)]
    /\ pc = "idle"
    /\ dispatch = <<>>
    /\ futures = <<>>
    /\ finished = {}
    /\ waiter = <<>>
    /\ results = <<>>
    /\ agg_call = None
    /\ agg_result = None
    /\ NothingElse

\* every task submitted to the executor has finished
AllTasksDone == \A i \in 1..Len(futures) : futures[i].state = "done"

\* WorkerPool.shutdown is called: executor.shutdown(wait=True) marks the
\* executor as shut down and starts waiting for its threads
ShutdownBegin ==
    /\ sd \in {"none", "returned"}
    /\ executor' = "shutdown"
    /\ sd' = IF sd = "none" THEN "joining" ELSE "joining again"
    /\ UNCHANGED <<poolVars, aggVars, learnerVars, ctorVars>>

ShutdownEndMutant ==
    /\ sd \in {"joining", "joining again"}
    /\ registry' = <<>>
    /\ sd' = IF sd = "joining" THEN "returned" ELSE "returned again"
    /\ UNCHANGED <<worker, pc, dispatch, futures, finished, waiter, results,
                   executor, aggVars, learnerVars, ctorVars>>

\* executor.shutdown(wait=True) returns once the threads have run every task
\* submitted; then workers.clear() and shutdown returns
ShutdownEnd ==
    /\ sd \in {"joining", "joining again"}
    /\ AllTasksDone
    /\ registry' = <<>>
    /\ sd' = IF sd = "joining" THEN "returned" ELSE "returned again"
    /\ UNCHANGED <<worker, pc, dispatch, futures, finished, waiter, results,
                   executor, aggVars, learnerVars, ctorVars>>

NextShutdown ==
    \/ \E worker_ids \in {None, Ids(<<"w1">>)} : ExecuteParallel(worker_ids)
    \/ \E i \in 1..Len(futures) : WorkerBegin(i)
    \/ \E i \in 1..Len(futures), beh \in Behaviours : WorkerEnd(i, beh)
    \/ AsCompleted
    \/ \E i \in 1..Len(futures) : Collect(i)
    \/ Return
    \/ ShutdownBegin
    \/ ShutdownEnd

SpecShutdown == InitShutdown /\ [][NextShutdown]_vars

\* a shutdown call returns in the step being taken
ShutdownReturns == sd' # sd /\ sd' \in {"returned", "returned again"}

\* C20: WorkerPool.shutdown returns only after every task already submitted
\* has finished and leaves the registry empty; a second shutdown raises no
\* error and leaves the pool as the first one left it.
C20_ShutdownDrainsClearsIdempotent ==
    [][ShutdownReturns =>
          /\ \A i \in 1..Len(futures') : futures'[i].state = "done"
          /\ registry' = <<>>
          /\ executor' = "shutdown"
          /\ sd = "joining again" =>
                 /\ registry' = registry
                 /\ executor' = executor
                 /\ worker' = worker
                 /\ futures' = futures
      ]_vars

\* two shutdowns returned while the caller of execute_parallel, whose two
\* tasks were submitted, had not begun to collect them
C20_Witness ==
    /\ sd = "returned again"
    /\ pc = "submitted"
    /\ Len(futures) = 2
    /\ registry = <<>>
    /\ \E i \in 1..2 : futures[i].outcome.value.status = FAILED

(***************************************************************************)
(* Order of the results of one execute_parallel call                       *)
(***************************************************************************)
\* future i finished its execution before future j did
FinishedBefore(i, j) ==
    /\ futures[i].state = "done"
    /\ futures[j].state = "done"
    /\ futures[i].completed < futures[j].completed

\* C21: in the list execute_parallel returns, the result of a worker whose
\* execution finished earlier precedes the result of a worker whose execution
\* finished later.
C21_ResultsInCompletionOrder ==
    pc = "returned" =>
        \A i, j \in 1..Len(dispatch) :
            (dispatch[i] # dispatch[j] /\ FinishedBefore(i, j)) =>
                \A a \in ResultsOf(dispatch[i]), b \in ResultsOf(dispatch[j]) : a < b

(***************************************************************************)
(* The weights map of an AggregatedResult                                  *)
(***************************************************************************)
\* the result is not the sentinel of a failed aggregation
NonSentinel ==
    /\ Aggregated
    /\ agg_result.kind = "return"
    /\ "error" \notin DOMAIN agg_result.value.metadata

\* C22: in every non-sentinel AggregatedResult, whichever strategy produced
\* it, the weights map holds the normalized weights of the valid workers: its
\* keys are the valid workers and its values sum to 1.
C22_RecordedWeightsNormalized ==
    NonSentinel =>
        /\ DOMAIN RecordedWeights = {agg_call.results[i].worker_id : i \in ValidOnes}
        /\ RecordedWeightSum = ROne

(***************************************************************************)
(* Overlapping execute_parallel calls: the executions of one Worker        *)
(* instance run in several pool threads at once.  Worker.execute is taken  *)
(* statement by statement; `self.execution_count += 1` and                 *)
(* `self.failure_count += 1` are a read of the attribute followed by a     *)
(* write, with no lock around them.  The collection loop of each call      *)
(* changes no worker state and is left out.                                *)
(***************************************************************************)
MaxExecutions == 3

\* a pool with w1 enabled and, possibly, w2 registered with enabled=False
InitCalls ==
    /\ registry \in {<<"w1">>, <<"w1", "w2">>}
    /\ worker = [w \in WorkerIds |-> NewWorker(w = "w1", 1)]
    /\ pc = "idle"
    /\ dispatch = <<>>
    /\ futures = <<>>
    /\ finished = {}
    /\ waiter = <<>>
    /\ results = <<>>
    /\ agg_call = None
    /\ agg_result = None
    /\ NothingElse

\* a task worker.execute as submitted for a worker whose status was `found`
\* when the call selected it; read is the thread's copy of the counter
\* between the read and the write of a `+= 1`
NewExecution(found) == [state |-> "pending", read |-> 0, raised |-> FALSE, found |-> found]

\* execute_parallel(data) is called, possibly while executions of earlier
\* calls are still running: one task per active worker is submitted
SubmitActiveWorkers ==
    /\ GetActiveWorkers # <<>>
    /\ Len(futures) + Len(GetActiveWorkers) <= MaxExecutions
    /\ dispatch' = dispatch \o GetActiveWorkers
    /\ futures' = futures \o [i \in 1..Len(GetActiveWorkers) |->
                                  NewExecution(worker[GetActiveWorkers[i]].status)]
    /\ UNCHANGED <<registry, worker, pc, finished, waiter, results, aggVars, shutdownVars, learnerVars, ctorVars>>

\* self.status = ACTIVE, then the read half of self.execution_count += 1
ReadExecutionCount(i) ==
    /\ i \in 1..Len(futures)
    /\ futures[i].state = "pending"
    /\ futures' = [futures EXCEPT ![i].state = "counting",
                                  ![i].read = worker[dispatch[i]].execution_count]
    /\ worker' = [worker EXCEPT ![dispatch[i]].status = ACTIVE]
    /\ UNCHANGED <<registry, pc, dispatch, finished, waiter, results, aggVars, shutdownVars, learnerVars, ctorVars>>

\* the write half of self.execution_count += 1
WriteExecutionCount(i) ==
    /\ i \in 1..Len(futures)
    /\ futures[i].state = "counting"
    /\ futures' = [futures EXCEPT ![i].state = "running"]
    /\ worker' = [worker EXCEPT ![dispatch[i]].execution_count = futures[i].read + 1]
    /\ UNCHANGED <<registry, pc, dispatch, finished, waiter, results, aggVars, shutdownVars, learnerVars, ctorVars>>

\* process and get_confidence return: self.status = IDLE, execute returns
ExecuteSucceeds(i) ==
    /\ i \in 1..Len(futures)
    /\ futures[i].state = "running"
    /\ futures' = [futures EXCEPT ![i].state = "done"]
    /\ worker' = [worker EXCEPT ![dispatch[i]].status = IDLE]
    /\ UNCHANGED <<registry, pc, dispatch, finished, waiter, results, aggVars, shutdownVars, learnerVars, ctorVars>>

\* process raises: the except branch is entered and reads self.failure_count
ReadFailureCount(i) ==
    /\ i \in 1..Len(futures)
    /\ futures[i].state = "running"
    /\ futures' = [futures EXCEPT ![i].state = "failing",
                                  ![i].raised = TRUE,
                                  ![i].read = worker[dispatch[i]].failure_count]
    /\ UNCHANGED <<registry, worker, pc, dispatch, finished, waiter, results, aggVars, shutdownVars, learnerVars, ctorVars>>

\* the write half of self.failure_count += 1, then self.status = FAILED and
\* execute returns the FAILED result
WriteFailureCount(i) ==
    /\ i \in 1..Len(futures)
    /\ futures[i].state = "failing"
    /\ futures' = [futures EXCEPT ![i].state = "done"]
    /\ worker' = [worker EXCEPT ![dispatch[i]].failure_count = futures[i].read + 1,
                                ![dispatch[i]].status = WFAILED]
    /\ UNCHANGED <<registry, pc, dispatch, finished, waiter, results, aggVars, shutdownVars, learnerVars, ctorVars>>

NextCalls ==
    \/ SubmitActiveWorkers
    \/ \E i \in 1..Len(futures) : ReadExecutionCount(i)
    \/ \E i \in 1..Len(futures) : WriteExecutionCount(i)
    \/ \E i \in 1..Len(futures) : ExecuteSucceeds(i)
    \/ \E i \in 1..Len(futures) : ReadFailureCount(i)
    \/ \E i \in 1..Len(futures) : WriteFailureCount(i)

SpecCalls == InitCalls /\ [][NextCalls]_vars

\* the executions of worker wid that were started, and those that failed
ExecutionsOf(wid) == {i \in 1..Len(futures) : dispatch[i] = wid}
FailuresOf(wid) == {i \in ExecutionsOf(wid) : futures[i].raised}

\* C23: once all the executions of a worker run by overlapping
\* execute_parallel calls have finished, its execution_count is the number of
\* executions started, its failure_count the number that failed, and
\* failure_count <= execution_count.
C23_CountersLoseNoUpdate ==
    \A wid \in WorkerIds :
        (\A i \in ExecutionsOf(wid) : futures[i].state = "done") =>
            /\ worker[wid].execution_count = Cardinality(ExecutionsOf(wid))
            /\ worker[wid].failure_count = Cardinality(FailuresOf(wid))
            /\ worker[wid].failure_count <= worker[wid].execution_count

\* the tasks a step of execute_parallel has just submitted
Submitted == (Len(futures) + 1)..Len(futures')
\* the registered workers whose config.enabled is true
EnabledWorkers == {wid \in Range(registry) : worker[wid].enabled}

\* C28: a failure never removes a worker from dispatch.  Every registered
\* worker with config.enabled true, the one whose latest execution failed
\* and whose status is FAILED included, is returned by get_active_workers
\* and gets a task from every default execute_parallel call; a successful
\* execution leaves its status IDLE.
C28_FailureKeepsWorkerDispatched ==
    /\ [](\A wid \in EnabledWorkers : wid \in Range(GetActiveWorkers))
    /\ [][Submitted # {} =>
              \A wid \in EnabledWorkers : \E i \in Submitted : dispatch'[i] = wid]_vars
    /\ [][\A i \in 1..Len(futures) :
              (futures[i].state = "running" /\ futures'[i].state = "done") =>
                  worker'[dispatch[i]].status = IDLE]_vars

\* a worker found FAILED by a call was dispatched, succeeded and is IDLE again
C28_Witness ==
    \E i \in 1..Len(futures) :
        /\ futures[i].found = WFAILED
        /\ futures[i].state = "done"
        /\ ~futures[i].raised
        /\ worker[dispatch[i]].status = IDLE
        /\ worker[dispatch[i]].failure_count >= 1
        /\ dispatch[i] \in Range(GetActiveWorkers)
        /\ Len(registry) = 2

(***************************************************************************)
(* The base weight a strategy applies                                      *)
(***************************************************************************)
\* the learner's stored weight when the aggregator has a learner and the
\* worker has an entry in its weight map, 1.0 otherwise
StoredWeightOrOne(wid) ==
    IF aggregator.has_learner /\ wid \in DOMAIN learner.weights
    THEN learner.weights[wid]
    ELSE ROne

\* the valid results of the call just made, by index, and the effective
\* weight the claim gives each
ValidNow == {i \in 1..Len(agg_call'.results) : IsValid(agg_call'.results[i])}
ClaimedEffective(i) ==
    RMul(StoredWeightOrOne(agg_call'.results[i].worker_id),
         IF "use_confidence" \in DOMAIN agg_call'.strategy /\ ~agg_call'.strategy.use_confidence
         THEN ROne
         ELSE agg_call'.results[i].confidence)

\* C27: the base weight a strategy applies to a valid worker is the learner's
\* stored weight when the worker has an entry in the learner's weight map and
\* 1.0 otherwise (never observed, empty map, no learner), whatever the
\* learner's prior_weight: majority voting and confidence-based selection
\* record that base weight, weighted average records its product with the
\* confidence, normalized.
C27_BaseWeightStoredOrOne ==
    [][AggregateStep =>
          /\ agg_result'.kind = "return"
          /\ DOMAIN agg_result'.value.weights =
                 {agg_call'.results[i].worker_id : i \in ValidNow}
          /\ \A i \in ValidNow :
                 LET wid == agg_call'.results[i].worker_id
                     recorded == agg_result'.value.weights[wid]
                     total == SumOver(ValidNow, ClaimedEffective)
                 IN  IF agg_call'.strategy.name = "weighted_average"
                     THEN total # RZero => RMul(recorded, total) = ClaimedEffective(i)
                     ELSE recorded = StoredWeightOrOne(wid)
      ]_vars

\* a learner with prior 1/2 that observed w1 but never w3: w1 got its stored
\* weight and w3 got 1.0
C27_Witness ==
    /\ aggregator.has_learner
    /\ learner.prior_weight = Frac(1, 2)
    /\ "weights" \in DOMAIN agg_call
    /\ agg_call.weights = Dict(learner.weights)
    /\ agg_call.strategy.name = "majority_voting"
    /\ "w1" \in DOMAIN learner.weights
    /\ "w3" \notin DOMAIN learner.weights
    /\ agg_result.kind = "return"
    /\ DOMAIN agg_result.value.weights = {"w1", "w3"}
    /\ agg_result.value.weights["w1"] = learner.weights["w1"]
    /\ agg_result.value.weights["w1"] # ROne
    /\ agg_result.value.weights["w3"] = ROne

(***************************************************************************)
(* The learner's three maps, reset_worker, and the range of the weights    *)
(***************************************************************************)
\* C29: after any sequence of update_weight, batch_update and reset_worker
\* calls the weight map, the history map and the update-count map have the
\* same worker ids and each update_count is the number of history entries;
\* reset_worker(w) removes w from all three, so that get_weight(w) is the
\* prior again and get_statistics(w) is None.
C29_MapsAgreeAndResetForgets ==
    /\ [](/\ DOMAIN learner.weights = DOMAIN learner.history
          /\ DOMAIN learner.update_count = DOMAIN learner.history
          /\ \A wid \in DOMAIN learner.history :
                 learner.update_count[wid] = Len(learner.history[wid]))
    /\ [][\A wid \in WorkerIds :
              called' = "reset_worker " \o wid =>
                  /\ wid \notin DOMAIN learner'.weights
                  /\ wid \notin DOMAIN learner'.history
                  /\ wid \notin DOMAIN learner'.update_count
                  /\ get_weight(learner', wid) = learner.prior_weight
                  /\ get_statistics(learner', wid) = None
                  /\ \A other \in WorkerIds \ {wid} :
                         get_statistics(learner', other) = get_statistics(learner, other)
         ]_vars

\* reset_worker("w1") has just returned; w2 keeps its two observations
C29_Witness ==
    /\ called = "reset_worker w1"
    /\ "w1" \notin DOMAIN learner.weights
    /\ Observed("w2") = 2
    /\ learner.update_count["w2"] = 2
    /\ learner.prior_weight = Frac(1, 2)

\* q lies in [0, 1]; q lies between a and b, ends included
InUnit(q) == RLe(RZero, q) /\ RLe(q, ROne)
Between(q, a, b) == RLe(RMin(a, b), q) /\ RLe(q, RMax(a, b))
\* the weight of wid before the update being made, and what it observes
WeightBefore(wid) == IF wid \in DOMAIN learner.weights THEN learner.weights[wid] ELSE learner.prior_weight
Seen(wid) == learner'.history[wid][Len(learner'.history[wid])]
\* the weight update_weight computes before it applies the floor
Moved(wid) ==
    LET a == IF learner.confidence_scaling
             THEN RMul(learner.alpha, Seen(wid).confidence)
             ELSE learner.alpha
    IN  RAdd(RMul(WeightBefore(wid), RSub(ROne, a)), RMul(Seen(wid).accuracy, a))
\* every observation of wid so far has accuracy and confidence in [0, 1]
ObservedInUnit(wid) ==
    \A k \in 1..Len(learner.history[wid]) :
        InUnit(learner.history[wid][k].accuracy) /\ InUnit(learner.history[wid][k].confidence)

\* C30: an update_weight call with confidence in [0, 1] moves the weight
\* toward the accuracy without overshooting: the weight before the floor lies
\* between the old weight and the accuracy.  Hence with accuracies in [0, 1],
\* prior_weight <= 1 and min_weight <= 1 every weight stays in
\* [min_weight, 1], and under confidence scaling an observation of confidence
\* 0 leaves a weight at or above the floor as it was.
C30_NoOvershoot ==
    /\ [][\A wid \in WorkerIds :
              (UpdateStep(wid) /\ InUnit(Seen(wid).confidence)) =>
                  /\ Between(Moved(wid), WeightBefore(wid), Seen(wid).accuracy)
                  /\ learner'.weights[wid] = RMax(Moved(wid), learner.min_weight)
                  /\ (/\ learner.confidence_scaling
                      /\ Seen(wid).confidence = RZero
                      /\ RLe(learner.min_weight, WeightBefore(wid))) =>
                         learner'.weights[wid] = WeightBefore(wid)
         ]_vars
    /\ [](\A wid \in DOMAIN learner.weights :
              (/\ ObservedInUnit(wid)
               /\ RLe(learner.prior_weight, ROne)
               /\ RLe(learner.min_weight, ROne)) =>
                  /\ RLe(learner.min_weight, learner.weights[wid])
                  /\ RLe(learner.weights[wid], ROne))

\* after an observation of accuracy 0.5 moved w1's weight from the prior 1.0
\* to 0.9, an observation of confidence 0 and accuracy 1 left it at 0.9
C30_Witness ==
    /\ called = "update_weight"
    /\ learner.confidence_scaling
    /\ learner.alpha = Frac(1, 5)
    /\ learner.prior_weight = ROne
    /\ Observed("w1") = 2
    /\ learner.history["w1"][1] = HalfRight
    /\ learner.history["w1"][2] = PerformanceMetric(RZero, ROne)
    /\ learner.weights["w1"] = Frac(9, 10)

(***************************************************************************)
(* tsm/core/learner.py: AdaptiveBayesianLearner                            *)
(***************************************************************************)
\* the square root of a rational that is the square of a rational
RSqrt(x) ==
    <<CHOOSE r \in 0..x[1] : r * r = x[1], CHOOSE r \in 0..x[2] : r * r = x[2]>>

\* np.std of a non-empty list of numbers: the population standard deviation
Std(q) ==
    LET mean == Mean(q)
        squares == [i \in 1..Len(q) |-> RMul(RSub(q[i], mean), RSub(q[i], mean))]
    IN  RSqrt(Mean(squares))

\* AdaptiveBayesianLearner.__init__; kwargs are those of BayesianWeightLearner
AdaptiveBayesianLearner(initial_alpha, min_alpha, max_alpha, stability_window, kwargs) ==
    LET base == BayesianWeightLearner(initial_alpha, kwargs.prior_weight,
                                      kwargs.min_weight, kwargs.confidence_scaling)
    IN  IF base.kind = "raise" THEN base
        ELSE Returns(base.value @@ [initial_alpha |-> initial_alpha,
                                    min_alpha |-> min_alpha,
                                    max_alpha |-> max_alpha,
                                    stability_window |-> stability_window,
                                    worker_alphas |-> <<>>])

\* AdaptiveBayesianLearner._calculate_stability
calculate_stability(self, worker_id) ==
    IF worker_id \notin DOMAIN self.history
           \/ Len(self.history[worker_id]) < self.stability_window
    THEN ROne
    ELSE LET history == self.history[worker_id]
             recent == SubSeq(history, Len(history) - self.stability_window + 1, Len(history))
             accuracies == [i \in 1..Len(recent) |-> recent[i].accuracy]
             mean == Mean(accuracies)
             std == Std(accuracies)
         IN  IF RLt(RZero, mean) THEN RDiv(std, mean) ELSE ROne

AdaptAlphaUnclampedMutant(self, worker_id) ==
    RAdd(self.min_alpha,
         RMul(RSub(self.max_alpha, self.min_alpha), calculate_stability(self, worker_id)))

\* AdaptiveBayesianLearner._adapt_alpha
adapt_alpha(self, worker_id) ==
    LET stability == calculate_stability(self, worker_id)
        adapted_alpha == RAdd(self.min_alpha,
                              RMul(RSub(self.max_alpha, self.min_alpha), stability))
    IN  RMax(self.min_alpha, RMin(self.max_alpha, adapted_alpha))

AdaptiveUpdateNoRestoreMutant(self, worker_id, metric) ==
    LET cached == [self EXCEPT !.worker_alphas = SetItem(@, worker_id, adapt_alpha(self, worker_id))]
    IN  update_weight([cached EXCEPT !.alpha = cached.worker_alphas[worker_id]],
                      worker_id, metric)

\* AdaptiveBayesianLearner.update_weight: the learner after the call
adaptive_update_weight(self, worker_id, metric) ==
    LET cached == [self EXCEPT !.worker_alphas = SetItem(@, worker_id, adapt_alpha(self, worker_id))]
        original_alpha == cached.alpha
        updated == update_weight([cached EXCEPT !.alpha = cached.worker_alphas[worker_id]],
                                 worker_id, metric)
    IN  [updated EXCEPT !.alpha = original_alpha]

(***************************************************************************)
(* Adaptive weight learning: update_weight calls made one after another    *)
(***************************************************************************)
\* a right prediction, and an observation whose accuracy is below 0
AllRight == PerformanceMetric(ROne, ROne)
BelowZero == PerformanceMetric(ROne, Frac(-1, 4))
AdaptiveMetrics == {HalfRight, AllWrong, AllRight, BelowZero}

\* the adaptive learners constructed: the default rates, and windows for
\* which the standard deviation of any accuracies is a rational number
AdaptiveLearners ==
    {AdaptiveBayesianLearner(Frac(1, 5), Frac(1, 100), Frac(1, 2), window,
                             [prior_weight |-> ROne, min_weight |-> Frac(1, 100),
                              confidence_scaling |-> scaling]).value :
         window \in {1, 2}, scaling \in BOOLEAN}

InitAdaptive ==
    /\ NoPool
    /\ NoShutdown
    /\ agg_call = None
    /\ agg_result = None
    /\ construction = None
    /\ learner \in AdaptiveLearners
    /\ called = "none"
    /\ calls = <<>>
    /\ aggregator = NewAggregator([name |-> "median"], TRUE)

\* learner.update_weight(worker_id, metric) on an AdaptiveBayesianLearner
AdaptiveUpdateWeight(worker_id, metric) ==
    /\ TotalObserved < MaxUpdates
    /\ learner' = adaptive_update_weight(learner, worker_id, metric)
    /\ called' = "update_weight"
    /\ UNCHANGED <<aggregator, calls, poolVars, aggVars, shutdownVars, ctorVars>>

NextAdaptive ==
    \E worker_id \in WorkerIds, metric \in AdaptiveMetrics :
        AdaptiveUpdateWeight(worker_id, metric)

SpecAdaptive == InitAdaptive /\ [][NextAdaptive]_vars

(***************************************************************************)
(* Properties of the adaptive learner                                      *)
(***************************************************************************)
\* the accuracies of the last stability_window observations of wid
RecentAccuracies(wid) ==
    LET n == Len(learner.history[wid])
    IN  [k \in 1..learner.stability_window |->
             learner.history[wid][n - learner.stability_window + k].accuracy]
\* wid has a full window of observations
FullWindow(wid) == Observed(wid) >= learner.stability_window
\* the coefficient of variation of a window of one or two accuracies: a
\* single value does not vary; two values a, b have standard deviation
\* |a - b| / 2 and mean (a + b) / 2
CoefficientOfVariation(q) ==
    IF Len(q) = 1 THEN RZero
    ELSE RDiv(RAbs(RSub(q[1], q[2])), RAdd(q[1], q[2]))
\* the learning rate for a stability: the linear map, clamped
RateFor(stability) ==
    LET rate == RAdd(learner.min_alpha,
                     RMul(RSub(learner.max_alpha, learner.min_alpha), stability))
    IN  IF RLt(rate, learner.min_alpha) THEN learner.min_alpha
        ELSE IF RLt(learner.max_alpha, rate) THEN learner.max_alpha
        ELSE rate
\* the update of wid being made applies the learning rate `rate`
AppliesRate(wid, rate) ==
    LET a == IF learner.confidence_scaling
             THEN RMul(rate, Seen(wid).confidence)
             ELSE rate
    IN  /\ learner'.worker_alphas[wid] = rate
        /\ learner'.weights[wid] =
               RuleWeight(WeightBefore(wid), a, Seen(wid).accuracy, learner.min_weight)

C25_AdaptationLocalToCall ==
    [][\A wid \in WorkerIds :
           UpdateStep(wid) =>
               /\ learner'.alpha = learner.alpha
               /\ learner'.initial_alpha = learner.initial_alpha
               /\ learner'.min_alpha = learner.min_alpha
               /\ learner'.max_alpha = learner.max_alpha
               /\ learner'.stability_window = learner.stability_window
               /\ wid \in DOMAIN learner'.worker_alphas
               /\ DOMAIN learner'.worker_alphas \ {wid} = DOMAIN learner.worker_alphas \ {wid}
               /\ \A other \in DOMAIN learner.worker_alphas \ {wid} :
                      learner'.worker_alphas[other] = learner.worker_alphas[other]
      ]_vars

\* w1 was last updated with min_alpha and w2 with max_alpha, and alpha is
\* still the initial 0.2
C25_Witness ==
    /\ called = "update_weight"
    /\ learner.alpha = Frac(1, 5)
    /\ DOMAIN learner.worker_alphas = {"w1", "w2"}
    /\ learner.worker_alphas["w1"] = learner.min_alpha
    /\ learner.worker_alphas["w2"] = learner.max_alpha
    /\ Observed("w1") = 2

(***************************************************************************)
(* Concurrent update_weight calls on one learner.  Each call runs in a     *)
(* thread of its own; the code takes no lock, so the reads and writes of   *)
(* the learner's attributes made by the calls interleave.                  *)
(***************************************************************************)
\* whether the learner is an AdaptiveBayesianLearner
IsAdaptive(self) == "worker_alphas" \in DOMAIN self

\* the learners the threads share
ConcurrentLearners ==
    {BayesianWeightLearner(Frac(1, 5), ROne, Frac(1, 100), FALSE).value,
     AdaptiveBayesianLearner(Frac(1, 5), Frac(1, 100), Frac(1, 2), 2,
                             [prior_weight |-> ROne, min_weight |-> Frac(1, 100),
                              confidence_scaling |-> FALSE]).value}

\* a call update_weight(worker_id, metric) about to start, with the local
\* variables of its thread
NewCall(self, worker_id, metric) ==
    [worker_id |-> worker_id,
     metric |-> metric,
     at |-> IF IsAdaptive(self) THEN "adapt" ELSE "read",
     original_alpha |-> RZero,
     current_weight |-> RZero,
     effective_alpha |-> RZero,
     count |-> 0]

\* two threads call update_weight on a learner nothing was recorded in
InitConcurrent ==
    /\ NoPool
    /\ NoShutdown
    /\ agg_call = None
    /\ agg_result = None
    /\ construction = None
    /\ learner \in ConcurrentLearners
    /\ called = "none"
    /\ aggregator = NewAggregator([name |-> "median"], TRUE)
    /\ calls \in {<<NewCall(learner, w[1], m[1]), NewCall(learner, w[2], m[2])>> :
                      w \in WorkerIds \X WorkerIds,
                      m \in {HalfRight, AllWrong} \X {HalfRight, AllWrong}}

\* AdaptiveBayesianLearner.update_weight: the adapted rate is cached and
\* self.alpha is read into original_alpha
AdaptAlpha(t) ==
    /\ calls[t].at = "adapt"
    /\ learner' = [learner EXCEPT !.worker_alphas =
                       SetItem(@, calls[t].worker_id, adapt_alpha(learner, calls[t].worker_id))]
    /\ calls' = [calls EXCEPT ![t].original_alpha = learner.alpha, ![t].at = "set_alpha"]
    /\ UNCHANGED <<called, aggregator, poolVars, aggVars, shutdownVars, ctorVars>>

\* self.alpha = self.worker_alphas[worker_id]
SetAlpha(t) ==
    /\ calls[t].at = "set_alpha"
    /\ learner' = [learner EXCEPT !.alpha = learner.worker_alphas[calls[t].worker_id]]
    /\ calls' = [calls EXCEPT ![t].at = "read"]
    /\ UNCHANGED <<called, aggregator, poolVars, aggVars, shutdownVars, ctorVars>>

\* BayesianWeightLearner.update_weight: current_weight and effective_alpha
\* are read from the learner
ReadWeight(t) ==
    /\ calls[t].at = "read"
    /\ calls' = [calls EXCEPT
                     ![t].current_weight = get_weight(learner, calls[t].worker_id),
                     ![t].effective_alpha = EffectiveAlpha(learner, calls[t].metric),
                     ![t].at = "write"]
    /\ UNCHANGED <<learner, called, aggregator, poolVars, aggVars, shutdownVars, ctorVars>>

\* new_weight is computed from the values read and stored in self.weights
WriteWeight(t) ==
    /\ calls[t].at = "write"
    /\ LET new_weight == RAdd(RMul(calls[t].current_weight,
                                   RSub(ROne, calls[t].effective_alpha)),
                              RMul(calls[t].metric.accuracy, calls[t].effective_alpha))
       IN  learner' = [learner EXCEPT !.weights =
                           SetItem(@, calls[t].worker_id, RMax(new_weight, learner.min_weight))]
    /\ calls' = [calls EXCEPT ![t].at = "history"]
    /\ UNCHANGED <<called, aggregator, poolVars, aggVars, shutdownVars, ctorVars>>

\* the metric is appended to the history and self.update_count is read
AppendHistory(t) ==
    /\ calls[t].at = "history"
    /\ LET wid == calls[t].worker_id IN
       /\ learner' = [learner EXCEPT !.history =
                          SetItem(@, wid, IF wid \in DOMAIN @
                                          THEN Append(@[wid], calls[t].metric)
                                          ELSE <<calls[t].metric>>)]
       /\ calls' = [calls EXCEPT ![t].count = IF wid \in DOMAIN learner.update_count
                                              THEN learner.update_count[wid] ELSE 0,
                                 ![t].at = "count"]
    /\ UNCHANGED <<called, aggregator, poolVars, aggVars, shutdownVars, ctorVars>>

\* self.update_count[worker_id] is written; the base update returns
WriteCount(t) ==
    /\ calls[t].at = "count"
    /\ learner' = [learner EXCEPT !.update_count =
                       SetItem(@, calls[t].worker_id, calls[t].count + 1)]
    /\ calls' = [calls EXCEPT ![t].at = IF IsAdaptive(learner) THEN "restore" ELSE "returned"]
    /\ UNCHANGED <<called, aggregator, poolVars, aggVars, shutdownVars, ctorVars>>

\* AdaptiveBayesianLearner.update_weight: self.alpha = original_alpha
RestoreAlpha(t) ==
    /\ calls[t].at = "restore"
    /\ learner' = [learner EXCEPT !.alpha = calls[t].original_alpha]
    /\ calls' = [calls EXCEPT ![t].at = "returned"]
    /\ UNCHANGED <<called, aggregator, poolVars, aggVars, shutdownVars, ctorVars>>

NextConcurrent ==
    \/ \E t \in 1..Len(calls) : AdaptAlpha(t)
    \/ \E t \in 1..Len(calls) : SetAlpha(t)
    \/ \E t \in 1..Len(calls) : ReadWeight(t)
    \/ \E t \in 1..Len(calls) : WriteWeight(t)
    \/ \E t \in 1..Len(calls) : AppendHistory(t)
    \/ \E t \in 1..Len(calls) : WriteCount(t)
    \/ \E t \in 1..Len(calls) : RestoreAlpha(t)

SpecConcurrent == InitConcurrent /\ [][NextConcurrent]_vars

\* the learner as it was before the calls: nothing recorded
BeforeCalls ==
    LET blank == [learner EXCEPT !.weights = <<>>, !.history = <<>>, !.update_count = <<>>]
    IN  IF IsAdaptive(learner)
        THEN [blank EXCEPT !.alpha = learner.initial_alpha, !.worker_alphas = <<>>]
        ELSE blank
\* the learner after call t has run alone, from start to return
AfterCall(self, t) ==
    IF IsAdaptive(self)
    THEN adaptive_update_weight(self, calls[t].worker_id, calls[t].metric)
    ELSE update_weight(self, calls[t].worker_id, calls[t].metric)
\* the learner has the weights, history lengths, update counts and alpha of `serial`
SameOutcome(serial) ==
    /\ learner.alpha = serial.alpha
    /\ DOMAIN learner.weights = DOMAIN serial.weights
    /\ DOMAIN learner.history = DOMAIN serial.history
    /\ DOMAIN learner.update_count = DOMAIN serial.update_count
    /\ \A wid \in DOMAIN serial.weights : learner.weights[wid] = serial.weights[wid]
    /\ \A wid \in DOMAIN serial.history : Len(learner.history[wid]) = Len(serial.history[wid])
    /\ \A wid \in DOMAIN serial.update_count :
           learner.update_count[wid] = serial.update_count[wid]

\* C24: concurrent update_weight calls on one learner are serialized: once
\* they have returned, the weight, history length and update count of each
\* worker, and the learner's alpha, are those of running the same calls one
\* after another in some order.
C24_ConcurrentUpdatesSerialized ==
    (calls # <<>> /\ \A t \in 1..Len(calls) : calls[t].at = "returned") =>
        \/ SameOutcome(AfterCall(AfterCall(BeforeCalls, 1), 2))
        \/ SameOutcome(AfterCall(AfterCall(BeforeCalls, 2), 1))
====
